---- MODULE Spec2Model ----
(***************************************************************************)
(* The instant-runoff tabulator of report_pipeline                         *)
(* (src/report_pipeline/src/tabulator/mod.rs) as a state machine.          *)
(*                                                                         *)
(* One behaviour is one call of tabulate(ballots, tabulation_options):     *)
(* the initial state is the state after TabulatorState::new and the        *)
(* initialisation of the locals, and every step is one iteration of the    *)
(* loop of tabulate.                                                       *)
(***************************************************************************)
EXTENDS Integers, Sequences, FiniteSets

(***************************************************************************)
(* Bounds of the model.                                                    *)
(***************************************************************************)

\* Each ballot type of Palette occurs between 0 and MaxCopies times in an
\* enumerated input.
MaxCopies == 2

\* The round ceiling of the model.  The source sets max_rounds to 1000; a
\* contest needs more than 1002 candidates to reach it.  The model keeps the
\* comparison of the source and scales the number, so that a contest of five
\* candidates reaches the ceiling.
RoundLimit == 2

(***************************************************************************)
(* Data model: Choice, Allocatee, NormalizedBallot.                        *)
(***************************************************************************)

\* Choice::Vote(CandidateId(c)), Choice::Undervote, Choice::Overvote.
Vote(c) == <<"Vote", c>>

Undervote == <<"Undervote">>

Overvote == <<"Overvote">>

IsVote(choice) == choice[1] = "Vote"

\* Allocatee::Candidate(CandidateId(c)), Allocatee::Exhausted.
Candidate(c) == <<"Candidate", c>>

Exhausted == <<"Exhausted">>

\* Allocatee::from_choice: a vote goes to its candidate, an undervote or an
\* overvote to Exhausted.
from_choice(choice) == IF IsVote(choice) THEN Candidate(choice[2]) ELSE Exhausted

\* A NormalizedBallot is modelled by its sequence of choices (its id is
\* opaque to the tabulator).
\* NormalizedBallot::top_vote: the first choice, Undervote for an empty ballot.
top_vote(ballot) == IF Len(ballot) = 0 THEN Undervote ELSE Head(ballot)

\* NormalizedBallot::pop_top_vote: the ballot without its first choice.
pop_top_vote(ballot) == Tail(ballot)

\* Option<bool>::unwrap_or(false); None is <<>>, Some(b) is <<b>>.
unwrap_or_false(opt) == IF opt = <<>> THEN FALSE ELSE opt[1]

(***************************************************************************)
(* Helpers for the ordered containers of the source.                       *)
(***************************************************************************)

RECURSIVE SumSeq(_)
\* Iterator::sum over a sequence of numbers.
SumSeq(s) == IF s = <<>> THEN 0 ELSE Head(s) + SumSeq(Tail(s))

\* slice::sort_by / sort_by_key are stable: an element is placed after every
\* element already placed whose key is not greater.  The elements are sorted
\* as <<key, element>> pairs.
InsertByKey(sorted, x) ==
    LET k == Cardinality({i \in 1..Len(sorted) : sorted[i][1] <= x[1]})
    IN  SubSeq(sorted, 1, k) \o <<x>> \o SubSeq(sorted, k + 1, Len(sorted))

RECURSIVE SortPairs(_)
SortPairs(pairs) ==
    IF pairs = <<>> THEN <<>>
    ELSE InsertByKey(SortPairs(SubSeq(pairs, 1, Len(pairs) - 1)), pairs[Len(pairs)])

\* The elements of s in the stable ascending order of keys[i], the key of s[i].
sort_by_key(s, keys) ==
    LET sorted == SortPairs([i \in 1..Len(s) |-> <<keys[i], s[i]>>])
    IN  [i \in 1..Len(s) |-> sorted[i][2]]

RECURSIVE AscendingSeq(_)
\* Iteration of a BTreeSet<CandidateId> or of the keys of a
\* BTreeMap<CandidateId, _>: ascending candidate ids.
AscendingSeq(S) ==
    IF S = {} THEN <<>>
    ELSE LET m == CHOOSE x \in S : \A y \in S : x <= y
         IN  <<m>> \o AscendingSeq(S \ {m})

(***************************************************************************)
(* Allocations (mod.rs 10-55).                                             *)
(***************************************************************************)

\* Mutant of Allocations_new: the votes are left in the order of the
\* candidate ids.
Allocations_new_unsorted(votes, exhausted) ==
    [votes |-> votes, exhausted |-> exhausted]

\* Allocations::new: the votes sorted descending by count (stable).
Allocations_new(votes, exhausted) ==
    [votes     |-> sort_by_key(votes, [i \in 1..Len(votes) |-> -votes[i][2]]),
     exhausted |-> exhausted]

\* Allocations::continuing: the sum of the candidates' votes.
continuing(alloc) ==
    SumSeq([i \in 1..Len(alloc.votes) |-> alloc.votes[i][2]])

\* Allocations::into_vec: one TabulatorAllocation per candidate, then the
\* Exhausted allocation.
into_vec(alloc) ==
    [i \in 1..Len(alloc.votes) |->
        [allocatee |-> Candidate(alloc.votes[i][1]), votes |-> alloc.votes[i][2]]]
    \o <<[allocatee |-> Exhausted, votes |-> alloc.exhausted]>>

(***************************************************************************)
(* TabulatorState (mod.rs 57-263): a record with the fields                *)
(*   candidate_ballots : a function from the choices that have a bucket to *)
(*                       the bucket's sequence of ballots,                 *)
(*   transfers         : the sequence of Transfer records into this round, *)
(*   eliminated        : the set of candidates eliminated so far.          *)
(***************************************************************************)

\* len() of the bucket of a choice, 0 when the map has no such key.
BucketLen(candidate_ballots, choice) ==
    IF choice \in DOMAIN candidate_ballots THEN Len(candidate_ballots[choice]) ELSE 0

\* Mutant of TabulatorState_new: a ballot without choices is skipped instead
\* of being pushed to the Undervote bucket.
TabulatorState_new_skip_empty(input) ==
    LET tops == {top_vote(input[i]) : i \in {j \in 1..Len(input) : input[j] # <<>>}}
    IN  [candidate_ballots |->
            [choice \in tops |-> LET Here(b) == b # <<>> /\ top_vote(b) = choice
                                 IN  SelectSeq(input, Here)],
         transfers |-> <<>>,
         eliminated |-> {}]

\* TabulatorState::new: every ballot is pushed, in input order, to the bucket
\* of its top vote; only choices that occur get a bucket.
TabulatorState_new(input) ==
    LET tops == {top_vote(input[i]) : i \in 1..Len(input)}
    IN  [candidate_ballots |->
            [choice \in tops |-> LET Here(b) == top_vote(b) = choice
                                 IN  SelectSeq(input, Here)],
         transfers |-> <<>>,
         eliminated |-> {}]

\* Mutant of ExhaustedPart: the nyc_style rule is forgotten, the buckets are
\* counted in every round.
ExhaustedPart_always_counted(count, options, rn) == count

\* The undervote or overvote count that enters `exhausted`: not counted in
\* round 0 under nyc_style.
ExhaustedPart(count, options, rn) ==
    IF unwrap_or_false(options.nyc_style) /\ rn = 0 THEN 0 ELSE count

\* TabulatorState::allocations.
allocations(st, options, rn) ==
    LET cb    == st.candidate_ballots
        ids   == {choice[2] : choice \in {ch \in DOMAIN cb : IsVote(ch)}}
        order == AscendingSeq(ids)
        votes == [i \in 1..Len(order) |-> <<order[i], Len(cb[Vote(order[i])])>>]
        exhausted == ExhaustedPart(BucketLen(cb, Undervote), options, rn)
                     + ExhaustedPart(BucketLen(cb, Overvote), options, rn)
    IN  Allocations_new(votes, exhausted)

\* Mutant of as_round: the undervote and overvote fields follow the
\* nyc_style rule of the exhausted allocation.
as_round_nyc_fields(st, options, rn) ==
    LET alloc == allocations(st, options, rn)
    IN  [allocations        |-> into_vec(alloc),
         undervote          |-> ExhaustedPart(BucketLen(st.candidate_ballots, Undervote), options, rn),
         overvote           |-> ExhaustedPart(BucketLen(st.candidate_ballots, Overvote), options, rn),
         continuing_ballots |-> continuing(alloc),
         transfers          |-> st.transfers]

\* TabulatorState::as_round.
as_round(st, options, rn) ==
    LET alloc == allocations(st, options, rn)
    IN  [allocations        |-> into_vec(alloc),
         undervote          |-> BucketLen(st.candidate_ballots, Undervote),
         overvote           |-> BucketLen(st.candidate_ballots, Overvote),
         continuing_ballots |-> continuing(alloc),
         transfers          |-> st.transfers]

(***************************************************************************)
(* do_elimination (mod.rs 156-262).                                        *)
(***************************************************************************)

RECURSIVE ScanPrefix_from_leader(_, _, _)
\* Mutant of ScanPrefix: the loop may end at the first entry.
ScanPrefix_from_leader(votes, i, remaining) ==
    IF i >= Len(votes) THEN Len(votes)
    ELSE LET v   == votes[i + 1][2]
             rem == remaining - v
         IN  IF v > rem THEN i + 1
             ELSE ScanPrefix_from_leader(votes, i + 1, rem)

RECURSIVE ScanPrefix_not_strict(_, _, _)
\* Mutant of ScanPrefix: the loop also ends at an entry that only equals
\* the votes after it.
ScanPrefix_not_strict(votes, i, remaining) ==
    IF i >= Len(votes) THEN Len(votes)
    ELSE LET v   == votes[i + 1][2]
             rem == remaining - v
         IN  IF v >= rem /\ i > 0 THEN i + 1
             ELSE ScanPrefix_not_strict(votes, i + 1, rem)

RECURSIVE ScanPrefix(_, _, _)
\* The loop over the sorted votes (mod.rs 168-173): i is the 0-based index of
\* the next entry, remaining the votes not yet subtracted.  The value is the
\* number of entries the iterator has consumed when the loop ends.
ScanPrefix(votes, i, remaining) ==
    IF i >= Len(votes) THEN Len(votes)
    ELSE LET v   == votes[i + 1][2]
             rem == remaining - v
         IN  IF v > rem /\ i > 0 THEN i + 1
             ELSE ScanPrefix(votes, i + 1, rem)

\* The entries the iterator has left after the loop (mod.rs 175).
to_eliminate(alloc) ==
    {alloc.votes[j][1] : j \in (ScanPrefix(alloc.votes, 0, continuing(alloc)) + 1)..Len(alloc.votes)}

\* Mutant of candidates_to_eliminate: no fallback to the last candidate.
candidates_to_eliminate_no_fallback(alloc) == to_eliminate(alloc)

\* Mutant of candidates_to_eliminate: every candidate behind the leader is
\* eliminated.
candidates_to_eliminate_keep_leader(alloc) ==
    {alloc.votes[j][1] : j \in 2..Len(alloc.votes)}

\* candidates_to_eliminate (mod.rs 164-189): the candidates after the scanned
\* prefix, or the last candidate of the sorted votes when there is none.
candidates_to_eliminate(alloc) ==
    IF to_eliminate(alloc) = {} /\ alloc.votes # <<>>
    THEN {alloc.votes[Len(alloc.votes)][1]}
    ELSE to_eliminate(alloc)

\* Mutant of Reallocate: a ballot whose next choice is an eliminated
\* candidate is exhausted instead of going on to its later choices.
Reallocate_exhaust(ballot, eliminated) ==
    IF IsVote(top_vote(pop_top_vote(ballot))) /\ top_vote(pop_top_vote(ballot))[2] \in eliminated
    THEN [ballot |-> <<>>, new_choice |-> Undervote]
    ELSE [ballot |-> pop_top_vote(ballot), new_choice |-> top_vote(pop_top_vote(ballot))]

RECURSIVE Reallocate(_, _)
\* The inner loop (mod.rs 210-221): pop the top choice until the top is not a
\* vote for an eliminated candidate.  The value is the shortened ballot with
\* its new choice.
Reallocate(ballot, eliminated) ==
    LET popped      == pop_top_vote(ballot)
        next_choice == top_vote(popped)
    IN  IF IsVote(next_choice) /\ next_choice[2] \in eliminated
        THEN Reallocate(popped, eliminated)
        ELSE [ballot |-> popped, new_choice |-> next_choice]

\* Mutant of MoveBallots: the bucket of the eliminated candidate is read but
\* not removed from the map.
MoveBallots_keep_bucket(candidate_ballots, from, eliminated) ==
    LET ballots == candidate_ballots[Vote(from)]
        moved   == [i \in 1..Len(ballots) |-> Reallocate(ballots[i], eliminated)]
        kept    == DOMAIN candidate_ballots
        dests   == {moved[i].new_choice : i \in 1..Len(moved)}
    IN  [choice \in kept \cup dests |->
            LET To(m)    == m.new_choice = choice
                arrived  == SelectSeq(moved, To)
            IN  (IF choice \in kept THEN candidate_ballots[choice] ELSE <<>>)
                \o [i \in 1..Len(arrived) |-> arrived[i].ballot]]

\* Mutant of MoveBallots: a moved ballot replaces the bucket of its new
\* choice (insert) instead of being pushed to it.
MoveBallots_overwrite(candidate_ballots, from, eliminated) ==
    LET ballots == candidate_ballots[Vote(from)]
        moved   == [i \in 1..Len(ballots) |-> Reallocate(ballots[i], eliminated)]
        kept    == DOMAIN candidate_ballots \ {Vote(from)}
        dests   == {moved[i].new_choice : i \in 1..Len(moved)}
    IN  [choice \in kept \cup dests |->
            LET To(m)    == m.new_choice = choice
                arrived  == SelectSeq(moved, To)
            IN  IF choice \in dests THEN <<arrived[Len(arrived)].ballot>>
                ELSE candidate_ballots[choice]]

\* One pass of the loop over candidates_to_eliminate (mod.rs 198-244) for the
\* candidate `from`: its bucket is removed and each of its ballots is pushed,
\* in order, to the bucket of its new choice.
MoveBallots(candidate_ballots, from, eliminated) ==
    LET ballots == candidate_ballots[Vote(from)]
        moved   == [i \in 1..Len(ballots) |-> Reallocate(ballots[i], eliminated)]
        kept    == DOMAIN candidate_ballots \ {Vote(from)}
        dests   == {moved[i].new_choice : i \in 1..Len(moved)}
    IN  [choice \in kept \cup dests |->
            LET To(m)    == m.new_choice = choice
                arrived  == SelectSeq(moved, To)
            IN  (IF choice \in kept THEN candidate_ballots[choice] ELSE <<>>)
                \o [i \in 1..Len(arrived) |-> arrived[i].ballot]]

\* Mutant of TransfersFrom: only the ballots that reach a candidate are
\* tallied, the exhausted ones are not.
TransfersFrom_candidates_only(candidate_ballots, from, eliminated) ==
    LET ballots == candidate_ballots[Vote(from)]
        tos     == [i \in 1..Len(ballots) |->
                       from_choice(Reallocate(ballots[i], eliminated).new_choice)]
    IN  {[from  |-> from,
          to    |-> a,
          count |-> Cardinality({i \in 1..Len(tos) : tos[i] = a})] :
            a \in {tos[i] : i \in 1..Len(tos)} \ {Exhausted}}

\* Mutant of TransfersFrom: a record is made per allocatee but the ballots
\* are not counted.
TransfersFrom_uncounted(candidate_ballots, from, eliminated) ==
    LET ballots == candidate_ballots[Vote(from)]
        tos     == [i \in 1..Len(ballots) |->
                       from_choice(Reallocate(ballots[i], eliminated).new_choice)]
    IN  {[from  |-> from,
          to    |-> a,
          count |-> 1] :
            a \in {tos[i] : i \in 1..Len(tos)}}

\* transfer_map of one pass (mod.rs 201, 228-243) as Transfer records: one
\* record per allocatee that received a ballot of `from`.
TransfersFrom(candidate_ballots, from, eliminated) ==
    LET ballots == candidate_ballots[Vote(from)]
        tos     == [i \in 1..Len(ballots) |->
                       from_choice(Reallocate(ballots[i], eliminated).new_choice)]
    IN  {[from  |-> from,
          to    |-> a,
          count |-> Cardinality({i \in 1..Len(tos) : tos[i] = a})] :
            a \in {tos[i] : i \in 1..Len(tos)}}

RECURSIVE EliminateEach(_, _, _, _)
\* The loop over candidates_to_eliminate in ascending order of id: the value
\* is the final candidate_ballots with the set of all Transfer records.
EliminateEach(candidate_ballots, transfers, order, eliminated) ==
    IF order = <<>> THEN [candidate_ballots |-> candidate_ballots, transfers |-> transfers]
    ELSE EliminateEach(MoveBallots(candidate_ballots, Head(order), eliminated),
                       transfers \cup TransfersFrom(candidate_ballots, Head(order), eliminated),
                       Tail(order),
                       eliminated)

\* The derived order of Allocatee: Candidate(a) < Candidate(b) for a < b, and
\* every Candidate before Exhausted.
AllocateeLess(x, y) ==
    /\ x # Exhausted
    /\ \/ y = Exhausted
       \/ x[2] < y[2]

\* The derived order of Transfer: by from, then to, then count.
TransferLess(a, b) ==
    \/ a.from < b.from
    \/ a.from = b.from /\ AllocateeLess(a.to, b.to)
    \/ a.from = b.from /\ a.to = b.to /\ a.count < b.count

RECURSIVE BTreeSetIter(_)
\* Iteration of the BTreeSet<Transfer> (mod.rs 249): ascending.
BTreeSetIter(S) ==
    IF S = {} THEN <<>>
    ELSE LET m == CHOOSE x \in S : \A y \in S \ {x} : TransferLess(x, y)
         IN  <<m>> \o BTreeSetIter(S \ {m})

\* Mutant of TransferKey: the bucket length is not negated.
TransferKey_not_negated(t, candidate_ballots) ==
    IF t.to = Exhausted THEN 0
    ELSE Len(candidate_ballots[Vote(t.to[2])])

\* The sort key of a transfer (mod.rs 250-255): 0 for Exhausted, minus the
\* bucket length of the destination candidate after the elimination.
TransferKey(t, candidate_ballots) ==
    IF t.to = Exhausted THEN 0
    ELSE -Len(candidate_ballots[Vote(t.to[2])])

\* TabulatorState::do_elimination.
do_elimination(st, options, rn) ==
    LET alloc      == allocations(st, options, rn)
        batch      == candidates_to_eliminate(alloc)
        eliminated == st.eliminated \cup batch
        done       == EliminateEach(st.candidate_ballots, {}, AscendingSeq(batch), eliminated)
        unsorted   == BTreeSetIter(done.transfers)
    IN  [candidate_ballots |-> done.candidate_ballots,
         transfers |-> sort_by_key(unsorted,
                           [i \in 1..Len(unsorted) |->
                               TransferKey(unsorted[i], done.candidate_ballots)]),
         eliminated |-> eliminated]

(***************************************************************************)
(* The inputs of the model.                                                *)
(***************************************************************************)

\* n copies of ballot b.
Copies(b, n) == [i \in 1..n |-> b]

\* The ballot types of the first family of enumerated inputs, over the
\* candidates 0..4 (enough candidates to reach the round limit): a bullet
\* vote, rankings whose later choices are eliminated before or after the
\* first, an undervote and an overvote below the top, and the empty ballot,
\* whose top vote is an undervote.
ChainPalette ==
    << <<Vote(0)>>,
       <<Vote(1), Vote(0)>>,
       <<Vote(2), Vote(3), Vote(1)>>,
       <<Vote(3), Vote(4), Vote(2)>>,
       <<Vote(4), Undervote, Vote(0)>>,
       <<Vote(4), Overvote, Vote(1)>>,
       <<>> >>

\* The ballot types of the second family, over the candidates 0..3: two
\* types for each of the candidates 0 and 1, so that the two trailing
\* candidates can be eliminated as one batch, rankings of the trailing
\* candidates that name each other, and a ballot whose top is an overvote.
BatchPalette ==
    << <<Vote(0)>>,
       <<Vote(0), Vote(1)>>,
       <<Vote(1), Vote(0)>>,
       <<Vote(1), Vote(2)>>,
       <<Vote(2), Vote(3), Vote(0)>>,
       <<Vote(3), Vote(2)>>,
       <<Overvote, Vote(0)>> >>

RECURSIVE Expand(_, _, _)
\* The ballot sequence with counts[k] copies of palette[k], for k = from..Len.
Expand(palette, counts, from) ==
    IF from > Len(palette) THEN <<>>
    ELSE Copies(palette[from], counts[from]) \o Expand(palette, counts, from + 1)

\* Every ballot sequence with 0..MaxCopies copies of each type of a palette.
PaletteInputs(palette) ==
    {Expand(palette, counts, 1) : counts \in [1..Len(palette) -> 0..MaxCopies]}

\* The end-to-end scenarios of the specification (section 8), candidates
\* A = 0, B = 1, C = 2.
TrivialMajority ==
    Copies(<<Vote(0), Vote(1), Vote(2)>>, 6) \o Copies(<<Vote(1), Vote(0), Vote(2)>>, 3)
    \o Copies(<<Vote(2), Vote(0), Vote(1)>>, 1)

IrvFlip ==
    Copies(<<Vote(0)>>, 4) \o Copies(<<Vote(1), Vote(2)>>, 3) \o Copies(<<Vote(2), Vote(1)>>, 4)

CondorcetNotIrv ==
    Copies(<<Vote(0), Vote(2), Vote(1)>>, 4) \o Copies(<<Vote(1), Vote(2), Vote(0)>>, 4)
    \o Copies(<<Vote(2), Vote(0), Vote(1)>>, 3)

ThreeWayTie ==
    Copies(<<Vote(0), Vote(1)>>, 5) \o Copies(<<Vote(1), Vote(2)>>, 5)
    \o Copies(<<Vote(2), Vote(0)>>, 5)

NycRoundZero ==
    Copies(<<>>, 100) \o Copies(<<Vote(0)>>, 200) \o Copies(<<Vote(1), Vote(0)>>, 120)
    \o Copies(<<Vote(2), Vote(1)>>, 80)

Scenarios == {TrivialMajority, IrvFlip, CondorcetNotIrv, ThreeWayTie, NycRoundZero}

\* An input whose last candidate is eliminated alone and whose ballots go to
\* two candidates and to Exhausted.
SplitTransfer ==
    Copies(<<Vote(0)>>, 4) \o Copies(<<Vote(1)>>, 4) \o Copies(<<Vote(2)>>, 5)
    \o <<<<Vote(3), Vote(1)>>, <<Vote(3), Vote(2)>>, <<Vote(3)>>>>

Inputs ==
    PaletteInputs(ChainPalette) \cup PaletteInputs(BatchPalette) \cup Scenarios \cup {SplitTransfer}

\* TabulationOptions.nyc_style is an Option<bool>.
Options == {[nyc_style |-> o] : o \in {<<>>, <<FALSE>>, <<TRUE>>}}

(***************************************************************************)
(* The report pipeline (commands/report.rs, main.rs) and the format        *)
(* readers it calls.                                                       *)
(*                                                                         *)
(* A path is the sequence of its components, Path::join is concatenation.  *)
(* A string that the source compares with String::cmp is one of Strings,   *)
(* which lists the strings of the model in ascending order.                *)
(***************************************************************************)

\* The strings of the model in ascending byte order (digits before upper
\* case before lower case).
Strings ==
    << "2019", "2019-11-05", "2020", "2020-11-03", "Council", "Mayor",
       "Town Council", "ca", "council", "mayor", "ny", "sfo", "us", "vt" >>

StringRank(s) == CHOOSE i \in 1..Len(Strings) : Strings[i] = s

\* String::cmp on the components of a path is the comparison of the joined
\* strings: the components of the model hold no byte below '/'.
RECURSIVE PathLess(_, _)
PathLess(p, q) ==
    IF q = <<>> THEN FALSE
    ELSE IF p = <<>> THEN TRUE
    ELSE IF Head(p) # Head(q) THEN StringRank(Head(p)) < StringRank(Head(q))
    ELSE PathLess(Tail(p), Tail(q))

\* Option<T>: None is <<>>, Some(v) is <<v>>.
None == <<>>

Some(v) == <<v>>

\* BTreeMap::get on loader_params (a record of strings).
get(params, key) == IF key \in DOMAIN params THEN Some(params[key]) ELSE None

\* A raw Election is the record [candidates, ballots].
\* Election::new(vec![], vec![]).
EmptyElection == [candidates |-> <<>>, ballots |-> <<>>]

\* The Election the source files of a contest hold when they can be read.
RawElection ==
    [candidates |-> <<"a", "b">>,
     ballots    |-> << <<Vote(0), Vote(1)>>, <<Vote(1)>>, <<Vote(0)>> >>]

\* The outcome of a call that may panic.
Panicked == [panic |-> TRUE]

Returned(v) == [panic |-> FALSE, value |-> v]

\* btv_ballot_reader (us_vt_btv/mod.rs 48-121): the ballots parameter is
\* required; a ballots file that cannot be opened gives the empty Election.
btv_ballot_reader(present, params) ==
    IF "ballots" \notin DOMAIN params THEN Panicked
    ELSE IF ~present THEN Returned(EmptyElection)
    ELSE Returned(RawElection)

\* mpls_ballot_reader (us_mn_mpls/mod.rs 46-118): the file parameter is
\* required, and ReaderBuilder::from_path(..).expect(..) panics when the
\* file cannot be opened.
mpls_ballot_reader(present, params) ==
    IF "file" \notin DOMAIN params THEN Panicked
    ELSE IF ~present THEN Panicked
    ELSE Returned(RawElection)

\* The loader parameters ReaderOptions::from_params unwraps
\* (us_ny_nyc/mod.rs 32-49).
NycKeys == {"officeName", "jurisdictionName", "candidatesFile", "cvrPattern"}

\* nyc_ballot_reader (us_ny_nyc/mod.rs 262-306): a candidates workbook that
\* cannot be opened gives the empty Election.
nyc_ballot_reader(present, params) ==
    IF ~(NycKeys \subseteq DOMAIN params) THEN Panicked
    ELSE IF ~present THEN Returned(EmptyElection)
    ELSE Returned(RawElection)

\* The single-contest reader of nist_sp_1500: the cvr parameter is required,
\* absent input degrades to the empty Election.
nist_ballot_reader(present, params) ==
    IF "cvr" \notin DOMAIN params THEN Panicked
    ELSE IF ~present THEN Returned(EmptyElection)
    ELSE Returned(RawElection)

\* read_all_nyc_data (efficient_reader.rs 139-235): read_candidate_ids_optimized
\* unwraps open_workbook_auto (efficient_reader.rs 240), so a candidates
\* workbook that cannot be opened panics.  The value is the database of the
\* races found.
read_all_nyc_data(present) ==
    IF ~present THEN Panicked ELSE Returned(RawElection)

\* nyc_batch_reader (us_ny_nyc/mod.rs 310-365) on the (office, params) pairs
\* of the contests: a map from office to Election.
nyc_batch_reader(present, contests) ==
    IF contests = <<>> THEN Returned([o \in {} |-> EmptyElection])
    ELSE LET first_params == contests[1][2]
             same_params ==
                 \A i \in 1..Len(contests) :
                     /\ get(contests[i][2], "candidatesFile")
                            = get(first_params, "candidatesFile")
                     /\ get(contests[i][2], "cvrPattern")
                            = get(first_params, "cvrPattern")
         IN  IF "candidatesFile" \notin DOMAIN first_params THEN Panicked
             ELSE IF "cvrPattern" \notin DOMAIN first_params THEN Panicked
             ELSE IF ~same_params THEN Returned([o \in {} |-> EmptyElection])
             ELSE IF read_all_nyc_data(present).panic THEN Panicked
             ELSE IF \E i \in 1..Len(contests) :
                         ~({"officeName", "jurisdictionName"}
                               \subseteq DOMAIN contests[i][2])
                  THEN Panicked
             ELSE Returned([o \in {contests[i][1] : i \in 1..Len(contests)} |->
                               read_all_nyc_data(present).value])

\* nist_batch_reader on the (contest id, params) pairs of the contests: a
\* map from contest id to Election; absent input degrades to empty
\* Elections.
nist_batch_reader(present, contests) ==
    Returned([id \in {contests[i][1] : i \in 1..Len(contests)} |->
                 IF present THEN RawElection ELSE EmptyElection])

(***************************************************************************)
(* Metadata, artifacts and the per-contest decision tree.                  *)
(*                                                                         *)
(* A Jurisdiction is [name, path, offices, elections]: offices maps an     *)
(* office id to its name, elections is the sequence of the entries of the  *)
(* elections map in the order of iteration, each an ElectionMetadata       *)
(* [election_path, name, date, data_format, contests].  A Contest is       *)
(* [office, loader_params], loader_params an Option of a record.           *)
(***************************************************************************)

\* The report and preprocessed directories of the command line.
report_dir == <<"report_dir">>

preprocessed_dir == <<"preprocessed_dir">>

\* Mutant of report_path: the office is left out of the path.
report_path_without_office(jurisdiction, election_path, contest) ==
    report_dir \o jurisdiction.path \o election_path \o <<"report.json">>

\* report_path (report.rs 31-35).
report_path(jurisdiction, election_path, contest) ==
    report_dir \o jurisdiction.path \o election_path
        \o <<contest.office>> \o <<"report.json">>

\* preprocessed_path (report.rs 36-40).
preprocessed_path(jurisdiction, election_path, contest) ==
    preprocessed_dir \o jurisdiction.path \o election_path
        \o <<contest.office>> \o <<"normalized.json.gz">>

\* The directory of the source files of an election: raw_base joined with
\* the election path.
raw_path(jurisdiction, election_path) == jurisdiction.path \o election_path

\* write_serialized: the file at `path` holds `value`.
write_serialized(fs, path, value) ==
    [p \in DOMAIN fs \cup {path} |-> IF p = path THEN value ELSE fs[p]]

\* The ElectionInfo preprocessing attaches to a contest.
ElectionInfo(jurisdiction, election, contest) ==
    [office            |-> contest.office,
     office_name       |-> jurisdiction.offices[contest.office].name,
     jurisdiction_path |-> jurisdiction.path,
     election_path     |-> election.election_path,
     jurisdiction_name |-> jurisdiction.name,
     election_name     |-> election.name,
     date              |-> election.date]

\* preprocess_election_from_data: the normalized ballots of a raw Election
\* with the info of the contest.
preprocess_election_from_data(raw_election, election, jurisdiction, contest) ==
    [info       |-> ElectionInfo(jurisdiction, election, contest),
     candidates |-> raw_election.candidates,
     ballots    |-> raw_election.ballots]

\* The reader of a data format, called on the loader parameters of the
\* contest; a contest without loader parameters is a fatal configuration
\* error.
read_election(data_format, present, loader_params) ==
    IF loader_params = None THEN Panicked
    ELSE IF data_format = "us_vt_btv" THEN btv_ballot_reader(present, loader_params[1])
    ELSE IF data_format = "us_mn_mpls" THEN mpls_ballot_reader(present, loader_params[1])
    ELSE IF data_format = "us_ny_nyc" THEN nyc_ballot_reader(present, loader_params[1])
    ELSE nist_ballot_reader(present, loader_params[1])

\* preprocess_election: read the contest with the reader of the format,
\* then normalize.
preprocess_election(present, election, jurisdiction, contest) ==
    LET raw_election == read_election(election.data_format, present,
                                      contest.loader_params)
    IN  IF raw_election.panic THEN Panicked
        ELSE Returned(preprocess_election_from_data(raw_election.value, election,
                                                    jurisdiction, contest))

\* generate_report: the ContestReport of a preprocessed contest; a contest
\* without ballots has no winner.
generate_report(preprocessed) ==
    [info           |-> preprocessed.info,
     num_candidates |-> Len(preprocessed.candidates),
     ballot_count   |-> Len(preprocessed.ballots),
     winner         |-> IF preprocessed.ballots = <<>> THEN None
                        ELSE Some(preprocessed.candidates[1])]

\* The ContestIndexEntry of a report (report.rs 89-103).
ContestIndexEntry(contest_report) ==
    [office         |-> contest_report.info.office,
     office_name    |-> contest_report.info.office_name,
     winner         |-> IF contest_report.winner = None THEN "No Winner"
                        ELSE contest_report.winner[1],
     num_candidates |-> contest_report.num_candidates]

\* The value of a contest step: the files after it, the operations made for
\* the contest in order, the paths written, and the index entry (None when
\* the contest is skipped).
ContestResult(fs, ops, paths, entry) ==
    Returned([files |-> fs, ops |-> ops, paths |-> paths, entry |-> entry])

\* process_contest (report.rs 14-109).
process_contest(fs, present, contest, election, jurisdiction, force_preprocess, force_report) ==
    LET rp == report_path(jurisdiction, election.election_path, contest)
        pp == preprocessed_path(jurisdiction, election.election_path, contest)
    IN  IF contest.office \notin DOMAIN jurisdiction.offices THEN Panicked
        ELSE IF rp \in DOMAIN fs /\ pp \in DOMAIN fs
                    /\ ~force_report /\ ~force_preprocess
        THEN ContestResult(fs, <<"read_report">>, {},
                           Some(ContestIndexEntry(fs[rp])))
        ELSE IF pp \in DOMAIN fs /\ ~force_preprocess
        THEN LET contest_report == generate_report(fs[pp])
             IN  ContestResult(write_serialized(fs, rp, contest_report),
                     <<"read_preprocessed", "generate_report", "write_report">>,
                     {rp}, Some(ContestIndexEntry(contest_report)))
        ELSE LET preprocessed == preprocess_election(present, election,
                                                     jurisdiction, contest)
             IN  IF preprocessed.panic THEN Panicked
                 ELSE LET contest_report == generate_report(preprocessed.value)
                      IN  ContestResult(
                              write_serialized(
                                  write_serialized(fs, pp, preprocessed.value),
                                  rp, contest_report),
                              <<"read_raw", "normalize", "write_preprocessed",
                                "generate_report", "write_report">>,
                              {pp, rp}, Some(ContestIndexEntry(contest_report)))

\* The body of the closure of process_nyc_election_batch and of
\* process_nist_election_batch for one contest (report.rs 145-222, 273-350),
\* given the Election taken from the batch result.
process_batch_contest(fs, raw_election, contest, election, jurisdiction, force_preprocess, force_report) ==
    LET rp == report_path(jurisdiction, election.election_path, contest)
        pp == preprocessed_path(jurisdiction, election.election_path, contest)
        fresh == force_preprocess \/ pp \notin DOMAIN fs
        preprocessed ==
            IF fresh
            THEN preprocess_election_from_data(raw_election, election,
                                               jurisdiction, contest)
            ELSE fs[pp]
        fs1 == IF fresh THEN write_serialized(fs, pp, preprocessed) ELSE fs
        regenerate == force_report \/ rp \notin DOMAIN fs
        contest_report == IF regenerate THEN generate_report(preprocessed)
                          ELSE fs[rp]
        fs2 == IF regenerate THEN write_serialized(fs1, rp, contest_report)
               ELSE fs1
    IN  ContestResult(fs2,
            (IF fresh THEN <<"normalize", "write_preprocessed">>
             ELSE <<"read_preprocessed">>)
            \o (IF regenerate THEN <<"generate_report", "write_report">>
                ELSE <<"read_report">>),
            (IF fresh THEN {pp} ELSE {}) \cup (IF regenerate THEN {rp} ELSE {}),
            Some(ContestIndexEntry(contest_report)))

(***************************************************************************)
(* The metadata of the model.                                              *)
(***************************************************************************)

Contest(office, loader_params) == [office |-> office, loader_params |-> loader_params]

ElectionMetadata(election_path, date, data_format, contests) ==
    [election_path |-> election_path,
     name          |-> "General Election",
     date          |-> date,
     data_format   |-> data_format,
     contests      |-> contests]

Jurisdiction(name, path, offices, elections) ==
    [name |-> name, path |-> path, offices |-> offices, elections |-> elections]

\* The offices of a jurisdiction: office id -> Office.
Offices == [mayor |-> [name |-> "Mayor"], council |-> [name |-> "Council"]]

\* Offices whose names are in the opposite order of their ids.
TownOffices == [mayor |-> [name |-> "Mayor"], council |-> [name |-> "Town Council"]]

\* Loader parameters of the formats.
BtvParams == Some([ballots |-> "ballots.txt"])

MplsParams == Some([file |-> "ballots.csv"])

NycParams(office_name, cvr_pattern) ==
    Some([officeName |-> office_name, jurisdictionName |-> "Citywide",
          candidatesFile |-> "candidates.xlsx", cvrPattern |-> cvr_pattern])

NycParamsWithoutCandidatesFile(office_name) ==
    Some([officeName |-> office_name, jurisdictionName |-> "Citywide",
          cvrPattern |-> "cvr.*"])

NistParams(cvr, contest) == Some([cvr |-> cvr, contest |-> contest])

\* The contests of the election of the first jurisdiction: one list for
\* each way process_election and the readers can go.
ContestLists ==
    { <<"us_vt_btv", <<Contest("mayor", BtvParams)>>>>,
      <<"us_vt_btv", <<Contest("sheriff", BtvParams)>>>>,
      <<"us_vt_btv", <<Contest("mayor", Some([archive |-> "a.zip"]))>>>>,
      <<"us_mn_mpls", <<Contest("mayor", MplsParams), Contest("council", MplsParams)>>>>,
      <<"us_ny_nyc", <<Contest("mayor", NycParams("Mayor", "cvr.*")),
                       Contest("council", NycParams("Council", "cvr.*"))>>>>,
      <<"us_ny_nyc", <<Contest("mayor", NycParams("Mayor", "cvr.*")),
                       Contest("council", NycParams("Council", "p2.*"))>>>>,
      <<"us_ny_nyc", <<Contest("mayor", NycParams("Mayor", "cvr.*"))>>>>,
      <<"us_ny_nyc", <<Contest("mayor", NycParamsWithoutCandidatesFile("Mayor")),
                       Contest("council", NycParamsWithoutCandidatesFile("Council"))>>>>,
      <<"us_ny_nyc", <<Contest("mayor", NycParams("Mayor", "cvr.*")),
                       Contest("council", None)>>>>,
      <<"us_ny_nyc", <<Contest("mayor", NycParams("Mayor", "cvr.*")),
                       Contest("mayor", NycParams("Mayor", "cvr.*"))>>>>,
      <<"nist_sp_1500", <<Contest("mayor", NistParams("cvr.zip", "1")),
                          Contest("council", NistParams("cvr.zip", "2"))>>>>,
      <<"nist_sp_1500", <<Contest("mayor", NistParams("cvr.zip", "1")),
                          Contest("council", NistParams("other.zip", "2"))>>>>,
      <<"nist_sp_1500", <<Contest("mayor", Some([contest |-> "1"])),
                          Contest("council", Some([contest |-> "2"]))>>>>,
      <<"nist_sp_1500", <<Contest("mayor", NistParams("cvr.zip", "x")),
                          Contest("council", NistParams("cvr.zip", "2"))>>>> }

\* A jurisdiction with one election of one Burlington contest.
Vermont ==
    Jurisdiction("Burlington", <<"us", "vt">>, Offices,
        << ElectionMetadata(<<"2020">>, "2020-11-03", "us_vt_btv",
                            <<Contest("mayor", BtvParams)>>) >>)

\* The metadata that exercise the caches, the dispatch and the readers: a
\* first jurisdiction with one election, whose contests are one of
\* ContestLists, and Vermont.
CacheMetas ==
    { << Jurisdiction("California", <<"us", "ca">>, Offices,
             << ElectionMetadata(<<"2020">>, "2020-11-03", l[1], l[2]) >>),
         Vermont >> : l \in ContestLists }

\* The jurisdictions that exercise the paths and the order of the index.
PathPalette ==
    { Jurisdiction("California", <<"us", "ca">>, Offices,
          << ElectionMetadata(<<"sfo", "2020">>, "2020-11-03", "us_vt_btv",
                              <<Contest("mayor", BtvParams)>>) >>),
      Jurisdiction("San Francisco", <<"us", "ca", "sfo">>, Offices,
          << ElectionMetadata(<<"2019">>, "2019-11-05", "us_vt_btv",
                              <<Contest("mayor", BtvParams),
                                Contest("council", BtvParams)>>),
             ElectionMetadata(<<"2020">>, "2020-11-03", "us_vt_btv",
                              <<Contest("council", BtvParams),
                                Contest("mayor", BtvParams)>>) >>),
      Jurisdiction("New York", <<"us", "ny">>, Offices,
          << ElectionMetadata(<<"2020">>, "2020-11-03", "us_vt_btv",
                              <<Contest("mayor", BtvParams),
                                Contest("mayor", BtvParams)>>) >>),
      Jurisdiction("Burlington", <<"us", "vt">>, TownOffices,
          << ElectionMetadata(<<"2020">>, "2019-11-05", "us_vt_btv",
                              <<Contest("council", BtvParams),
                                Contest("mayor", BtvParams)>>) >>) }

\* Two different jurisdictions of PathPalette, in the order read_meta finds
\* them.
PathMetas == { m \in PathPalette \X PathPalette : m[1] # m[2] }

\* The contests of a metadata, each as <<jurisdiction, election, contest>>
\* positions.
ContestIds(m) ==
    UNION { UNION { { <<j, k, i>> : i \in 1..Len(m[j].elections[k].contests) } :
                    k \in 1..Len(m[j].elections) } :
            j \in 1..Len(m) }

ElectionIds(m) ==
    UNION { { <<j, k>> : k \in 1..Len(m[j].elections) } : j \in 1..Len(m) }

\* The artifacts a previous run left for the contest c of m.
OldPreprocessed(m, c) ==
    preprocess_election_from_data(RawElection, m[c[1]].elections[c[2]], m[c[1]],
                                  m[c[1]].elections[c[2]].contests[c[3]])

OldReport(m, c) == generate_report(OldPreprocessed(m, c))

\* The contests of the first jurisdiction a previous run can have processed.
Cacheable(m) ==
    { c \in ContestIds(m) :
          /\ c[1] = 1
          /\ m[1].elections[c[2]].contests[c[3]].office \in DOMAIN m[1].offices }

PathOfReport(m, c) ==
    report_path(m[c[1]], m[c[1]].elections[c[2]].election_path,
                m[c[1]].elections[c[2]].contests[c[3]])

PathOfPreprocessed(m, c) ==
    preprocessed_path(m[c[1]], m[c[1]].elections[c[2]].election_path,
                      m[c[1]].elections[c[2]].contests[c[3]])

\* The file system a previous run left: the reports of the contests of R and
\* the preprocessed artifacts of the contests of P.
OldFiles(m, R, P) ==
    [p \in {PathOfReport(m, c) : c \in R} \cup {PathOfPreprocessed(m, c) : c \in P} |->
        IF \E c \in R : p = PathOfReport(m, c)
        THEN OldReport(m, CHOOSE c \in R : p = PathOfReport(m, c))
        ELSE OldPreprocessed(m, CHOOSE c \in P : p = PathOfPreprocessed(m, c))]

\* The directories of the source files of the elections of the metadata.
RawPaths(m) ==
    { raw_path(m[e[1]], m[e[1]].elections[e[2]].election_path) : e \in ElectionIds(m) }

(***************************************************************************)
(* tabulate (mod.rs 265-301).                                              *)
(***************************************************************************)

VARIABLES
    ballots,            \* the argument `ballots`
    tabulation_options, \* the argument `tabulation_options`
    state,              \* the local `state`: a TabulatorState
    rounds,             \* the local `rounds`: the TabulatorRounds pushed so far
    round_number,       \* the local `round_number`
    pc,                 \* "loop" at the head of the loop, "done" after a break
    limit_logged,       \* whether log_error! reported the round limit
    eliminations        \* history: candidates_to_eliminate of each do_elimination call

tabulate_vars == <<ballots, tabulation_options, state, rounds, round_number, pc,
                   limit_logged, eliminations>>

\* The state of a CandidateMap under a sequence of calls
\* (formats/common/candidate_map.rs).
VARIABLES
    id_to_index,        \* CandidateMap::id_to_index: external id -> CandidateId
    candidates,         \* CandidateMap::candidates: the Vec<Candidate>
    cm_calls            \* history: one record per call made on the map

candidate_map_vars == <<id_to_index, candidates, cm_calls>>

\* The state of one run of report (commands/report.rs 526-588).
VARIABLES
    meta,                   \* the jurisdictions read_meta yields
    raw,                    \* the directories whose source files can be read
    files,                  \* the artifact files: path -> content
    old_files,              \* history: the artifact files before the command
    use_cache_preprocess,   \* main: the flag after the deprecated alias
    use_cache_report,       \* main: the flag after the deprecated alias
    force_preprocess,       \* the argument force_preprocess of report
    force_report,           \* the argument force_report of report
    filtered_jurisdictions, \* the positions in meta that pass the filter
    report_pc,              \* where report is
    worker_pc,              \* per jurisdiction: where its worker is
    election_index,         \* per jurisdiction: the election being processed
    contest_index,          \* per jurisdiction: the contest being processed
    elections_by_key,       \* per jurisdiction: what is left of the batch result
    contest_index_entries,  \* per jurisdiction: the entries of the election
    election_results,       \* per jurisdiction: the ElectionIndexEntrys so far
    ops,                    \* history: per contest, the operations made for it
    batch_reader_calls,     \* history: per election, the calls of a batch reader
    written                 \* history: per path, the contests it was written for

\* The state of one run of rebuild_index (commands/report.rs 591-690).
VARIABLES
    rebuild_pc,             \* where rebuild_index is
    report_files,           \* the local report_files
    reports_found,          \* the local reports_found
    reports_processed,      \* the local reports_processed
    election_map            \* the local election_map: path -> ElectionIndexEntry

rebuild_vars ==
    <<rebuild_pc, report_files, reports_found, reports_processed, election_map>>

\* rebuild_index is not running.
RebuildIdle ==
    /\ rebuild_pc = "idle"
    /\ report_files = <<>>
    /\ reports_found = 0
    /\ reports_processed = 0
    /\ election_map = <<>>

\* The state of one call of a ballot reader or of parse_ballot (formats/).
VARIABLES
    reader_pc,              \* where the reader is
    reader_input,           \* the input: the source file, the build
    reader_position,        \* the number of lines or rows consumed
    reader_output,          \* the locals the reader builds its result in
    parse_calls             \* history: the calls of a cell or ballot parser

reader_vars ==
    <<reader_pc, reader_input, reader_position, reader_output, parse_calls>>

\* No reader is running.
ReaderIdle ==
    /\ reader_pc = "idle"
    /\ reader_input = <<>>
    /\ reader_position = 0
    /\ reader_output = <<>>
    /\ parse_calls = <<>>

report_vars ==
    <<meta, raw, files, old_files, use_cache_preprocess, use_cache_report, force_preprocess,
      force_report, filtered_jurisdictions, report_pc, worker_pc, election_index,
      contest_index, elections_by_key, contest_index_entries, election_results,
      ops, batch_reader_calls, written>>

\* report is not running.
ReportIdle ==
    /\ meta = <<>>
    /\ raw = {}
    /\ files = <<>>
    /\ old_files = <<>>
    /\ use_cache_preprocess = FALSE
    /\ use_cache_report = FALSE
    /\ force_preprocess = FALSE
    /\ force_report = FALSE
    /\ filtered_jurisdictions = <<>>
    /\ report_pc = "idle"
    /\ worker_pc = <<>>
    /\ election_index = <<>>
    /\ contest_index = <<>>
    /\ elections_by_key = <<>>
    /\ contest_index_entries = <<>>
    /\ election_results = <<>>
    /\ ops = <<>>
    /\ batch_reader_calls = <<>>
    /\ written = <<>>

vars ==
    <<tabulate_vars, candidate_map_vars, report_vars, rebuild_vars, reader_vars>>

\* The map of CandidateMap::new on which no call has been made
\* (candidate_map.rs 14-19).
CandidateMapFresh ==
    /\ id_to_index = [x \in {} |-> 0]
    /\ candidates = <<>>
    /\ cm_calls = <<>>

\* let max_rounds = 1000 (mod.rs 272), scaled to the bound RoundLimit.
max_rounds == RoundLimit

\* The state after mod.rs 269-272.
Init ==
    /\ ballots \in Inputs
    /\ tabulation_options \in Options
    /\ state = TabulatorState_new(ballots)
    /\ rounds = <<>>
    /\ round_number = 0
    /\ pc = "loop"
    /\ limit_logged = FALSE
    /\ eliminations = <<>>
    /\ CandidateMapFresh
    /\ ReportIdle
    /\ RebuildIdle
    /\ ReaderIdle

\* The local `allocations` of the current iteration (mod.rs 275).
Current == allocations(state, tabulation_options, round_number)

\* Mutant of is_last_round: the loop ends one candidate early.
is_last_round_three(alloc) == Len(alloc.votes) <= 3

\* Mutant of is_last_round: the loop ends as soon as the leader holds more
\* votes than all other candidates combined (Allocations::is_final).
is_last_round_is_final(alloc) ==
    IF alloc.votes = <<>> THEN TRUE
    ELSE alloc.votes[1][2] > continuing(alloc) - alloc.votes[1][2]

\* Mutant of is_last_round: the loop goes on until one candidate is left.
is_last_round_one(alloc) == Len(alloc.votes) <= 1

\* The test that ends the loop (mod.rs 284): at most two candidates have
\* ballots.
is_last_round(alloc) == Len(alloc.votes) <= 2

\* An iteration that pushes the round and breaks because at most two
\* candidates have votes (mod.rs 275-286).
FinalRound ==
    /\ pc = "loop"
    /\ is_last_round(Current)
    /\ rounds' = Append(rounds, as_round(state, tabulation_options, round_number))
    /\ pc' = "done"
    /\ UNCHANGED <<ballots, tabulation_options, state, round_number, limit_logged,
                   eliminations>>
    /\ UNCHANGED <<candidate_map_vars, report_vars, rebuild_vars, reader_vars>>

\* An iteration that pushes the round and breaks at the round limit
\* (mod.rs 275-294).
CeilingBreak ==
    /\ pc = "loop"
    /\ ~is_last_round(Current)
    /\ round_number >= max_rounds
    /\ rounds' = Append(rounds, as_round(state, tabulation_options, round_number))
    /\ limit_logged' = TRUE
    /\ pc' = "done"
    /\ UNCHANGED <<ballots, tabulation_options, state, round_number, eliminations>>
    /\ UNCHANGED <<candidate_map_vars, report_vars, rebuild_vars, reader_vars>>

\* An iteration that pushes the round, eliminates and goes on to the next
\* round (mod.rs 275-297).
EliminationRound ==
    /\ pc = "loop"
    /\ ~is_last_round(Current)
    /\ round_number < max_rounds
    /\ rounds' = Append(rounds, as_round(state, tabulation_options, round_number))
    /\ state' = do_elimination(state, tabulation_options, round_number)
    /\ round_number' = round_number + 1
    /\ eliminations' = Append(eliminations, candidates_to_eliminate(Current))
    /\ UNCHANGED <<ballots, tabulation_options, pc, limit_logged>>
    /\ UNCHANGED <<candidate_map_vars, report_vars, rebuild_vars, reader_vars>>

Next == FinalRound \/ CeilingBreak \/ EliminationRound

Spec == Init /\ [][Next]_vars

(***************************************************************************)
(* Reading the output: the rounds returned by tabulate.                    *)
(***************************************************************************)

IsCandidateAllocation(a) == a.allocatee[1] = "Candidate"

\* The candidate allocations of a round, in the order of the round.
CandidateAllocations(round) == SelectSeq(round.allocations, IsCandidateAllocation)

\* The candidates a round allocates votes to.
CandidatesIn(round) ==
    {round.allocations[i].allocatee[2] :
        i \in {j \in 1..Len(round.allocations) : IsCandidateAllocation(round.allocations[j])}}

\* The votes a round allocates to candidate c; 0 when c is absent.
VotesOf(round, c) ==
    SumSeq([i \in 1..Len(round.allocations) |->
               IF round.allocations[i].allocatee = Candidate(c)
               THEN round.allocations[i].votes ELSE 0])

\* The votes a round allocates to all candidates together.
CandidateVotes(round) ==
    SumSeq([i \in 1..Len(round.allocations) |->
               IF IsCandidateAllocation(round.allocations[i])
               THEN round.allocations[i].votes ELSE 0])

\* The votes of the Exhausted allocation of a round.
ExhaustedVotes(round) ==
    SumSeq([i \in 1..Len(round.allocations) |->
               IF round.allocations[i].allocatee = Exhausted
               THEN round.allocations[i].votes ELSE 0])

\* The sum of count over the Transfer records of a round.
TransferTotal(round) ==
    SumSeq([i \in 1..Len(round.transfers) |-> round.transfers[i].count])

\* Whether the call runs with nyc_style.
NycStyle == unwrap_or_false(tabulation_options.nyc_style)

\* The input ballots whose top vote is an undervote or an overvote: the
\* ballots of the Undervote and Overvote buckets of round 0.
UnvotedTops == Cardinality({i \in 1..Len(ballots) : ~IsVote(top_vote(ballots[i]))})

\* The candidates eliminated before round k of the output (rounds[k], k >= 1;
\* rounds[1] is round 0).
EliminatedBefore(k) ==
    UNION {eliminations[j] : j \in {i \in 1..Len(eliminations) : i < k}}

\* The sum of the votes round `round` allocates to the candidates of S.
RECURSIVE VotesOfSet(_, _)
VotesOfSet(round, S) ==
    IF S = {} THEN 0
    ELSE LET c == CHOOSE x \in S : TRUE
         IN  VotesOf(round, c) + VotesOfSet(round, S \ {c})

\* The undervote and overvote ballots counted as exhausted in rounds[k]: all
\* ballots of the two buckets, none in round 0 under nyc_style.
CountedUnvoted(k) ==
    IF NycStyle /\ k = 1 THEN 0 ELSE rounds[k].undervote + rounds[k].overvote

(***************************************************************************)
(* C1: conservation of ballots.                                            *)
(***************************************************************************)

\* C1 as stated: in every round the candidate votes plus the undervote and
\* overvote ballots counted as exhausted equal the number of input ballots.
C1_Conservation_Original ==
    \A k \in 1..Len(rounds) :
        CandidateVotes(rounds[k]) + CountedUnvoted(k) = Len(ballots)

\* C1 as amended: in every round the candidate votes plus the undervote and
\* overvote ballots counted as exhausted equal the number of input ballots,
\* except in round 0 under nyc_style, where the sum is the number of input
\* ballots minus the ballots whose top vote is an undervote or an overvote.
C1_Conservation ==
    \A k \in 1..Len(rounds) :
        /\ CandidateVotes(rounds[k]) + CountedUnvoted(k)
              = IF NycStyle /\ k = 1 THEN Len(ballots) - UnvotedTops ELSE Len(ballots)
        /\ ExhaustedVotes(rounds[k]) = CountedUnvoted(k)

\* C1 witness: a run under nyc_style with undervote or overvote tops that
\* has returned a round after round 0 in which a ballot was exhausted by a
\* transfer.
C1_Witness ==
    /\ NycStyle
    /\ UnvotedTops > 0
    /\ Len(rounds) >= 2
    /\ ExhaustedVotes(rounds[2]) > UnvotedTops

(***************************************************************************)
(* C2: no resurrection.                                                    *)
(***************************************************************************)

\* C2: a candidate eliminated in the transition out of a round is absent
\* from the allocations of every later round, and no eliminated candidate
\* has a bucket of ballots (none is re-attributed to it), also when the
\* ballot's next choices were eliminated in the same batch.
C2_NoResurrection ==
    /\ \A j \in 1..Len(eliminations) : \A k \in 1..Len(rounds) :
          k > j => eliminations[j] \cap CandidatesIn(rounds[k]) = {}
    /\ \A c \in state.eliminated : Vote(c) \notin DOMAIN state.candidate_ballots
    /\ state.eliminated = UNION {eliminations[j] : j \in 1..Len(eliminations)}

\* C2 witness: a batch of at least two candidates was eliminated, a ballot
\* of one of them ranks another of them next, and a later round was returned.
C2_Witness ==
    \E j \in 1..Len(eliminations) :
        /\ Len(rounds) > j
        /\ Cardinality(eliminations[j]) >= 2
        /\ \E i \in 1..Len(ballots) :
              /\ Len(ballots[i]) >= 3
              /\ IsVote(ballots[i][1]) /\ ballots[i][1][2] \in eliminations[j]
              /\ IsVote(ballots[i][2]) /\ ballots[i][2][2] \in eliminations[j]
              /\ IsVote(ballots[i][3]) /\ ballots[i][3][2] \in CandidatesIn(rounds[j + 1])

(***************************************************************************)
(* C3: monotone survival.                                                  *)
(***************************************************************************)

\* The candidate ids that occur on the input ballots.
BallotCandidates ==
    UNION {{ballots[i][r][2] : r \in {q \in 1..Len(ballots[i]) : IsVote(ballots[i][q])}} :
              i \in 1..Len(ballots)}

\* C3: for every round after round 0 and every candidate not eliminated by
\* that round, the candidate's votes are at least its votes of the round
\* before (0 for a candidate absent from a round).
C3_MonotoneSurvival ==
    \A k \in 2..Len(rounds) :
        \A c \in (BallotCandidates \cup CandidatesIn(rounds[k])) \ EliminatedBefore(k) :
            VotesOf(rounds[k], c) >= VotesOf(rounds[k - 1], c)

\* C3 witness: a surviving candidate gained votes in a round after round 0
\* while another surviving candidate kept its count.
C3_Witness ==
    \E k \in 2..Len(rounds) :
        \E c, d \in CandidatesIn(rounds[k]) :
            /\ VotesOf(rounds[k], c) > VotesOf(rounds[k - 1], c)
            /\ VotesOf(rounds[k - 1], c) > 0
            /\ VotesOf(rounds[k], d) = VotesOf(rounds[k - 1], d)

(***************************************************************************)
(* C4: transfer conservation.                                              *)
(***************************************************************************)

\* C4: for every round after round 0, the counts of all its Transfer records
\* (to candidates and to Exhausted) sum to the votes the round before gave
\* to the candidates eliminated in the transition between the two.
C4_TransferConservation ==
    \A k \in 2..Len(rounds) :
        /\ TransferTotal(rounds[k]) = VotesOfSet(rounds[k - 1], eliminations[k - 1])
        /\ \A i \in 1..Len(rounds[k].transfers) :
              rounds[k].transfers[i].from \in eliminations[k - 1]

\* C4 witness: a round whose transfers go to a candidate and to Exhausted,
\* from a batch of at least two candidates.
C4_Witness ==
    \E k \in 2..Len(rounds) :
        /\ Cardinality(eliminations[k - 1]) >= 2
        /\ \E i, j \in 1..Len(rounds[k].transfers) :
              /\ rounds[k].transfers[i].to = Exhausted
              /\ rounds[k].transfers[j].to # Exhausted

(***************************************************************************)
(* C5: the stop condition.                                                 *)
(***************************************************************************)

\* The number of candidate allocations of a round.
NumCandidates(round) == Len(CandidateAllocations(round))

\* Every candidate allocation of every round has a positive vote count, and
\* every round before the last has more than two candidate allocations.
C5_Common ==
    /\ \A k \in 1..Len(rounds) :
          \A i \in 1..Len(rounds[k].allocations) :
              IsCandidateAllocation(rounds[k].allocations[i])
                  => rounds[k].allocations[i].votes > 0
    /\ \A k \in 1..Len(rounds) :
          (k < Len(rounds) \/ pc = "loop") => NumCandidates(rounds[k]) > 2

\* C5 as stated: tabulate stops at the first round with at most two
\* candidates: the last round returned has at most two candidate
\* allocations, every earlier round has more than two, and every candidate
\* allocation has a positive vote count.
C5_StopsAtTwo_Original ==
    /\ C5_Common
    /\ pc = "done" => NumCandidates(rounds[Len(rounds)]) <= 2

\* C5 as amended: the same, except that a tabulation cut off by the round
\* limit (round_number >= max_rounds) returns a last round that has more
\* than two candidate allocations.
C5_StopsAtTwo ==
    /\ C5_Common
    /\ pc = "done" =>
          /\ rounds # <<>>
          /\ limit_logged <=> NumCandidates(rounds[Len(rounds)]) > 2
          /\ limit_logged => round_number >= max_rounds

\* C5 witness: a tabulation that ended, without reaching the round limit, in
\* its third round.
C5_Witness ==
    /\ pc = "done"
    /\ ~limit_logged
    /\ Len(rounds) = 3
    /\ NumCandidates(rounds[3]) = 2

(***************************************************************************)
(* C6: a round-0 leader with a majority.                                   *)
(***************************************************************************)

\* The input ballots whose top vote is candidate c: its round-0 votes.
TopVotes(c) == Cardinality({i \in 1..Len(ballots) : top_vote(ballots[i]) = Vote(c)})

\* The candidates with round-0 votes.
TopCandidates == {c \in BallotCandidates : TopVotes(c) > 0}

\* The round-0 votes of all candidates together.
AllTopVotes == Cardinality({i \in 1..Len(ballots) : IsVote(top_vote(ballots[i]))})

\* Candidate c holds more round-0 votes than all other candidates combined.
MajorityLeader(c) == TopVotes(c) > AllTopVotes - TopVotes(c)

AllocOf(round) ==
    LET cands == CandidateAllocations(round)
    IN  [votes     |-> [i \in 1..Len(cands) |-> <<cands[i].allocatee[2], cands[i].votes>>],
         exhausted |-> ExhaustedVotes(round)]

\* The candidate of the last candidate allocation of a round.
LastCandidate(round) ==
    CandidateAllocations(round)[NumCandidates(round)].allocatee[2]

\* All candidate allocations of a round have the same vote count.
AllTied(round) ==
    \A i, j \in 1..NumCandidates(round) :
        CandidateAllocations(round)[i].votes = CandidateAllocations(round)[j].votes

\* C7: every elimination step eliminates at least one candidate of its
\* round; when the batch rule selects nobody (as when all candidates are
\* tied) it eliminates exactly the last candidate of the sorted allocations;
\* every round after round 0 follows an elimination and carries its
\* transfers.
C7_EliminatesSomeone ==
    /\ \A j \in 1..Len(eliminations) :
          /\ eliminations[j] # {}
          /\ eliminations[j] \subseteq CandidatesIn(rounds[j])
          /\ (to_eliminate(AllocOf(rounds[j])) = {} \/ AllTied(rounds[j]))
                => eliminations[j] = {LastCandidate(rounds[j])}
          /\ Len(rounds) > j => rounds[j + 1].transfers # <<>>
    /\ Len(eliminations) = IF pc = "done" THEN Len(rounds) - 1 ELSE Len(rounds)

\* C7 witness: a round of at least three tied candidates was followed by a
\* round without the last of them.
C7_Witness ==
    \E j \in 1..Len(eliminations) :
        /\ Len(rounds) > j
        /\ AllTied(rounds[j])
        /\ NumCandidates(rounds[j]) >= 3
        /\ eliminations[j] = {LastCandidate(rounds[j])}
        /\ NumCandidates(rounds[j + 1]) = NumCandidates(rounds[j]) - 1

(***************************************************************************)
(* C8: the Exhausted allocation.                                           *)
(***************************************************************************)

\* C8: the Exhausted allocation of a round is the size of the Undervote
\* bucket plus the size of the Overvote bucket, except that it is 0 in round
\* 0 under nyc_style; the buckets are counted again in every later round, so
\* a later round reports at least the round-0 undervotes and overvotes as
\* exhausted.
C8_ExhaustedAllocation ==
    \A k \in 1..Len(rounds) :
        /\ ExhaustedVotes(rounds[k])
              = IF NycStyle /\ k = 1 THEN 0 ELSE rounds[k].undervote + rounds[k].overvote
        /\ rounds[1].undervote + rounds[1].overvote = UnvotedTops
        /\ k > 1 => ExhaustedVotes(rounds[k]) >= UnvotedTops
        /\ rounds[k].allocations[Len(rounds[k].allocations)].allocatee = Exhausted

\* C8 witness: under nyc_style, the contest with 100 undervote ballots and
\* 400 marked ballots reports 0 exhausted in round 0 and at least 100 in
\* round 1.
C8_Witness ==
    /\ NycStyle
    /\ ballots = NycRoundZero
    /\ Len(rounds) = 2
    /\ rounds[1].undervote = 100
    /\ ExhaustedVotes(rounds[1]) = 0
    /\ ExhaustedVotes(rounds[2]) >= 100

(***************************************************************************)
(* C10: the round limit.                                                   *)
(***************************************************************************)

\* C10 as stated: tabulate never returns more rounds than the round limit
\* (1,000 in the source, max_rounds here).
C10_AtMostMaxRounds == Len(rounds) <= max_rounds

(***************************************************************************)
(* CandidateMap (formats/common/candidate_map.rs).                         *)
(*                                                                         *)
(* A map is the record [id_to_index, candidates]: id_to_index is a         *)
(* function from the external ids inserted so far to CandidateIds          *)
(* (positions in `candidates`, from 0), candidates is the Vec<Candidate>.  *)
(* A Candidate is the record [name, candidate_type].                       *)
(***************************************************************************)

\* The number of calls made on the map in one behaviour.
MaxCalls == 3

\* The external candidate ids of the calls.
ExternalIds == {0, 1, 2}

\* The candidates of the calls: two names, and one name under two types.
Candidates ==
    { [name |-> "a", candidate_type |-> "Regular"],
      [name |-> "b", candidate_type |-> "Regular"],
      [name |-> "a", candidate_type |-> "WriteIn"] }

\* CandidateMap::new (candidate_map.rs 14-19).
CandidateMap_new == [id_to_index |-> [x \in {} |-> 0], candidates |-> <<>>]

\* HashMap::insert: the entry of key k becomes v.
HashMapInsert(m, k, v) == [x \in DOMAIN m \cup {k} |-> IF x = k THEN v ELSE m[x]]

\* Iterator::position on the names: the positions (from 0) of the candidates
\* named `name`, of which the source takes the first.
PositionsOf(cands, name) == {i \in 0..(Len(cands) - 1) : cands[i + 1].name = name}

Minimum(S) == CHOOSE m \in S : \A n \in S : m <= n

\* CandidateMap::add (candidate_map.rs 21-27): the id is mapped to the next
\* position and the candidate is pushed, whatever the map holds.
add(self, external_candidate_id, candidate) ==
    [id_to_index |-> HashMapInsert(self.id_to_index, external_candidate_id,
                                   Len(self.candidates)),
     candidates  |-> Append(self.candidates, candidate)]

\* CandidateMap::id_to_choice (candidate_map.rs 51-58), for an id the map
\* holds.
id_to_choice(self, external_candidate_id) ==
    Vote(self.id_to_index[external_candidate_id])

\* Mutant of add_id_to_choice: every call adds the candidate.
add_id_to_choice_always_add(self, external_candidate_id, candidate) ==
    LET after == add(self, external_candidate_id, candidate)
    IN  [self |-> after, ret |-> id_to_choice(after, external_candidate_id)]

\* Mutant of add_id_to_choice: an unknown id always adds its candidate, the
\* names are not compared.
add_id_to_choice_no_dedup(self, external_candidate_id, candidate) ==
    LET after == IF external_candidate_id \in DOMAIN self.id_to_index
                 THEN self
                 ELSE add(self, external_candidate_id, candidate)
    IN  [self |-> after, ret |-> id_to_choice(after, external_candidate_id)]

\* CandidateMap::add_id_to_choice (candidate_map.rs 29-49): the map after the
\* call (`self`) and the Choice returned (`ret`).
add_id_to_choice(self, external_candidate_id, candidate) ==
    LET existing == PositionsOf(self.candidates, candidate.name)
        after ==
            IF external_candidate_id \in DOMAIN self.id_to_index
            THEN self
            ELSE IF existing # {}
                 THEN [self EXCEPT !.id_to_index =
                           HashMapInsert(self.id_to_index, external_candidate_id,
                                         Minimum(existing))]
                 ELSE add(self, external_candidate_id, candidate)
    IN  [self |-> after, ret |-> id_to_choice(after, external_candidate_id)]

\* The sequences that hold every element of S once: the orders in which
\* read_dir or a HashMap can yield S.
Orders(S) ==
    { s \in [1..Cardinality(S) -> S] : \A x \in S : \E i \in DOMAIN s : s[i] = x }

RECURSIVE merge_with_name_dedup(_, _, _)
RECURSIVE merge_every_key(_, _, _)
RECURSIVE merge(_, _, _)

\* Mutant of merge: every key of other is inserted with a new candidate,
\* whether self holds the key or not.
merge_every_key(self, other, order) ==
    IF order = <<>> THEN self
    ELSE merge_every_key(
             [id_to_index |-> HashMapInsert(self.id_to_index, Head(order),
                                            Len(self.candidates)),
              candidates  |-> Append(self.candidates,
                  other.candidates[other.id_to_index[Head(order)] + 1])],
             other, Tail(order))

\* Mutant of merge: a new key whose candidate name the map already holds is
\* mapped to the candidate of that name.
merge_with_name_dedup(self, other, order) ==
    IF order = <<>> THEN self
    ELSE merge_with_name_dedup(
             IF Head(order) \in DOMAIN self.id_to_index THEN self
             ELSE add_id_to_choice(self, Head(order),
                      other.candidates[other.id_to_index[Head(order)] + 1]).self,
             other, Tail(order))

\* CandidateMap::merge (candidate_map.rs 64-75): `order` is the order in
\* which the HashMap other.id_to_index yields its entries.
merge(self, other, order) ==
    IF order = <<>> THEN self
    ELSE merge(
             IF Head(order) \in DOMAIN self.id_to_index THEN self
             ELSE [id_to_index |-> HashMapInsert(self.id_to_index, Head(order),
                                                 Len(self.candidates)),
                   candidates  |-> Append(self.candidates,
                       other.candidates[other.id_to_index[Head(order)] + 1])],
             other, Tail(order))

\* The maps merged into self: the empty map, maps of one and two keys, a map
\* with two keys on one candidate, a map whose key was added twice, and a
\* map with one name under two keys and types.
OtherMaps ==
    LET a  == [name |-> "a", candidate_type |-> "Regular"]
        b  == [name |-> "b", candidate_type |-> "Regular"]
        aw == [name |-> "a", candidate_type |-> "WriteIn"]
    IN  { CandidateMap_new,
          add(CandidateMap_new, 0, a),
          add(add(CandidateMap_new, 1, b), 2, a),
          add_id_to_choice(add(CandidateMap_new, 0, a), 1, aw).self,
          add(add(CandidateMap_new, 2, a), 2, b),
          add(add(CandidateMap_new, 1, a), 2, aw) }

\* The map held by the variables.
Self == [id_to_index |-> id_to_index, candidates |-> candidates]

\* A call of add.
CallAdd ==
    \E x \in ExternalIds, c \in Candidates :
        LET after == add(Self, x, c)
        IN  /\ Len(cm_calls) < MaxCalls
            /\ id_to_index' = after.id_to_index
            /\ candidates' = after.candidates
            /\ cm_calls' = Append(cm_calls,
                   [op |-> "add", external_candidate_id |-> x, candidate |-> c,
                    before |-> Self, after |-> after, ret |-> <<>>])
            /\ UNCHANGED <<tabulate_vars, report_vars, rebuild_vars, reader_vars>>

\* A call of add_id_to_choice.
CallAddIdToChoice ==
    \E x \in ExternalIds, c \in Candidates :
        LET r == add_id_to_choice(Self, x, c)
        IN  /\ Len(cm_calls) < MaxCalls
            /\ id_to_index' = r.self.id_to_index
            /\ candidates' = r.self.candidates
            /\ cm_calls' = Append(cm_calls,
                   [op |-> "add_id_to_choice", external_candidate_id |-> x,
                    candidate |-> c, before |-> Self, after |-> r.self,
                    ret |-> r.ret])
            /\ UNCHANGED <<tabulate_vars, report_vars, rebuild_vars, reader_vars>>

\* A call of merge.
CallMerge ==
    \E other \in OtherMaps :
        \E order \in Orders(DOMAIN other.id_to_index) :
            LET after == merge(Self, other, order)
            IN  /\ Len(cm_calls) < MaxCalls
                /\ id_to_index' = after.id_to_index
                /\ candidates' = after.candidates
                /\ cm_calls' = Append(cm_calls,
                       [op |-> "merge", external_candidate_id |-> <<>>,
                        candidate |-> <<>>, other |-> other, before |-> Self,
                        after |-> after, ret |-> <<>>])
                /\ UNCHANGED <<tabulate_vars, report_vars, rebuild_vars, reader_vars>>

\* The tabulator at rest while a candidate map is exercised.
TabulateIdle ==
    /\ ballots = <<>>
    /\ tabulation_options = [nyc_style |-> <<>>]
    /\ state = TabulatorState_new(<<>>)
    /\ rounds = <<>>
    /\ round_number = 0
    /\ pc = "idle"
    /\ limit_logged = FALSE
    /\ eliminations = <<>>

InitCandidateMap ==
    CandidateMapFresh /\ TabulateIdle /\ ReportIdle /\ RebuildIdle /\ ReaderIdle

NextCandidateMap == CallAdd \/ CallAddIdToChoice \/ CallMerge

\* A fresh CandidateMap under any sequence of at most MaxCalls calls.
SpecCandidateMap == InitCandidateMap /\ [][NextCandidateMap]_vars

\* The calls of add_id_to_choice in the history, by position.
AddIdToChoiceCalls == {i \in 1..Len(cm_calls) : cm_calls[i].op = "add_id_to_choice"}

\* Call i + 1 repeats call i: both are add_id_to_choice with the same
\* arguments.
Repeats(i) ==
    /\ i \in AddIdToChoiceCalls
    /\ i + 1 \in AddIdToChoiceCalls
    /\ cm_calls[i + 1].external_candidate_id = cm_calls[i].external_candidate_id
    /\ cm_calls[i + 1].candidate = cm_calls[i].candidate

\* C19: when add_id_to_choice(x, C) is called twice in a row, both calls
\* return the same Choice and the second call leaves the candidate vector and
\* the id mapping as the first call left them.
C19_Idempotent ==
    \A i \in 1..Len(cm_calls) :
        Repeats(i) =>
            /\ cm_calls[i + 1].ret = cm_calls[i].ret
            /\ cm_calls[i + 1].after.candidates = cm_calls[i].after.candidates
            /\ cm_calls[i + 1].after.id_to_index = cm_calls[i].after.id_to_index

\* A repeated call whose first call changed the map.
C19_Witness ==
    \E i \in 1..Len(cm_calls) :
        /\ Repeats(i)
        /\ cm_calls[i].after # cm_calls[i].before

\* The three cases of a call of add_id_to_choice.
IsMapped(call) == call.external_candidate_id \in DOMAIN call.before.id_to_index

SameName(call) == PositionsOf(call.before.candidates, call.candidate.name)

\* The id mapping of `before` with the id of the call mapped to `id`.
MappedTo(call, id) ==
    /\ DOMAIN call.after.id_to_index =
           DOMAIN call.before.id_to_index \cup {call.external_candidate_id}
    /\ call.after.id_to_index[call.external_candidate_id] = id
    /\ \A x \in DOMAIN call.before.id_to_index :
           call.after.id_to_index[x] = call.before.id_to_index[x]

\* C20: add_id_to_choice on an unmapped id appends the candidate and maps
\* the id to the new last index when no candidate has the same name, and
\* otherwise maps the id to the index of a candidate of that name and leaves
\* the candidate vector alone; on a mapped id it changes nothing; it returns
\* Vote(id) for the id the external id is mapped to after the call.
C20_AddIdToChoice ==
    \A i \in AddIdToChoiceCalls :
        LET call == cm_calls[i]
        IN  /\ IsMapped(call) => call.after = call.before
            /\ (~IsMapped(call) /\ SameName(call) = {}) =>
                   /\ call.after.candidates =
                          Append(call.before.candidates, call.candidate)
                   /\ MappedTo(call, Len(call.after.candidates) - 1)
            /\ (~IsMapped(call) /\ SameName(call) # {}) =>
                   /\ call.after.candidates = call.before.candidates
                   /\ call.after.id_to_index[call.external_candidate_id]
                          \in SameName(call)
                   /\ MappedTo(call,
                          call.after.id_to_index[call.external_candidate_id])
            /\ call.ret = Vote(call.after.id_to_index[call.external_candidate_id])

\* One history in which the three cases happened: an id appended, another id
\* aliased to the candidate of the same name, and a call on a mapped id.
C20_Witness ==
    /\ \E i \in AddIdToChoiceCalls :
           ~IsMapped(cm_calls[i]) /\ SameName(cm_calls[i]) = {}
    /\ \E i \in AddIdToChoiceCalls :
           ~IsMapped(cm_calls[i]) /\ SameName(cm_calls[i]) # {}
    /\ \E i \in AddIdToChoiceCalls : IsMapped(cm_calls[i])

\* The calls of merge in the history, by position.
MergeCalls == {i \in 1..Len(cm_calls) : cm_calls[i].op = "merge"}

\* The external keys of `other` that self did not hold before the call.
NewKeys(call) == DOMAIN call.other.id_to_index \ DOMAIN call.before.id_to_index

\* C21: after self.merge(other) every key self held keeps its internal id
\* and candidate; every key of other that self did not hold is mapped to an
\* internal id of its own at or above the previous length, whose candidate is
\* the candidate other has for the key; names are not compared, so the
\* candidate vector grows by the number of new keys.
C21_Merge ==
    \A i \in MergeCalls :
        LET call == cm_calls[i]
            old_len == Len(call.before.candidates)
        IN  /\ DOMAIN call.after.id_to_index
                   = DOMAIN call.before.id_to_index \cup DOMAIN call.other.id_to_index
            /\ SubSeq(call.after.candidates, 1, old_len) = call.before.candidates
            /\ \A x \in DOMAIN call.before.id_to_index :
                   call.after.id_to_index[x] = call.before.id_to_index[x]
            /\ \A x \in NewKeys(call) :
                   /\ call.after.id_to_index[x] >= old_len
                   /\ call.after.id_to_index[x] < Len(call.after.candidates)
                   /\ call.after.candidates[call.after.id_to_index[x] + 1]
                          = call.other.candidates[call.other.id_to_index[x] + 1]
                   /\ \A y \in NewKeys(call) :
                          y # x => call.after.id_to_index[y] # call.after.id_to_index[x]
            /\ Len(call.after.candidates) = old_len + Cardinality(NewKeys(call))

\* A merge into a map that holds a key of other and the name of a new key
\* of other.
C21_Witness ==
    \E i \in MergeCalls :
        LET call == cm_calls[i]
        IN  /\ DOMAIN call.other.id_to_index \cap DOMAIN call.before.id_to_index # {}
            /\ Cardinality(NewKeys(call)) >= 1
            /\ \E x \in NewKeys(call) :
                   PositionsOf(call.before.candidates,
                       call.other.candidates[call.other.id_to_index[x] + 1].name) # {}

(***************************************************************************)
(* report (commands/report.rs 526-588) with one worker per jurisdiction.   *)
(***************************************************************************)

\* The state before main parses the command line: the metadata, the source
\* files and the artifacts of a previous run.
InitReport ==
    /\ \/ /\ meta \in CacheMetas
          /\ raw \in SUBSET {raw_path(meta[1], meta[1].elections[1].election_path)}
          /\ \E R \in SUBSET Cacheable(meta), P \in SUBSET Cacheable(meta) :
                 files = OldFiles(meta, R, P)
       \/ /\ meta \in PathMetas
          /\ raw = RawPaths(meta)
          /\ files = OldFiles(meta, {}, {})
    /\ old_files = files
    /\ use_cache_preprocess = FALSE
    /\ use_cache_report = FALSE
    /\ force_preprocess = FALSE
    /\ force_report = FALSE
    /\ filtered_jurisdictions = <<>>
    /\ report_pc = "main"
    /\ worker_pc = <<>>
    /\ election_index = <<>>
    /\ contest_index = <<>>
    /\ elections_by_key = <<>>
    /\ contest_index_entries = <<>>
    /\ election_results = <<>>
    /\ ops = [c \in ContestIds(meta) |-> <<>>]
    /\ batch_reader_calls = [e \in ElectionIds(meta) |-> 0]
    /\ written = [p \in {} |-> {}]
    /\ RebuildIdle
    /\ ReaderIdle
    /\ TabulateIdle
    /\ CandidateMapFresh

\* The values of --jurisdiction: none, the path of a jurisdiction, a path of
\* no jurisdiction.
Filters == {None, Some(<<"us", "ca">>), Some(<<"us">>)}

\* main (main.rs 80-111) and report up to the parallel iterator
\* (report.rs 535-561).  An empty list of jurisdictions returns at once.
Main ==
    \E cli_use_cache_preprocess \in BOOLEAN, cli_use_cache_report \in BOOLEAN,
       cli_force_preprocess \in BOOLEAN, cli_force_report \in BOOLEAN,
       jurisdiction_filter \in Filters :
        LET filtered ==
                IF jurisdiction_filter = None THEN [j \in 1..Len(meta) |-> j]
                ELSE SelectSeq([j \in 1..Len(meta) |-> j],
                               LAMBDA j : meta[j].path = jurisdiction_filter[1])
        IN  /\ report_pc = "main"
            /\ use_cache_preprocess' =
                   (IF cli_force_preprocess THEN FALSE ELSE cli_use_cache_preprocess)
            /\ use_cache_report' =
                   (IF cli_force_report THEN FALSE ELSE cli_use_cache_report)
            /\ force_preprocess' = (~use_cache_preprocess' \/ ~use_cache_report')
            /\ force_report' = ~use_cache_report'
            /\ filtered_jurisdictions' = filtered
            /\ report_pc' = IF filtered = <<>> THEN "returned" ELSE "par_iter"
            /\ worker_pc' = [j \in {filtered[n] : n \in 1..Len(filtered)} |-> "election"]
            /\ election_index' = [j \in DOMAIN worker_pc' |-> 1]
            /\ contest_index' = [j \in DOMAIN worker_pc' |-> 1]
            /\ elections_by_key' = [j \in DOMAIN worker_pc' |-> <<>>]
            /\ contest_index_entries' = [j \in DOMAIN worker_pc' |-> <<>>]
            /\ election_results' = [j \in DOMAIN worker_pc' |-> <<>>]
            /\ UNCHANGED <<meta, raw, files, ops, batch_reader_calls, written>>
            /\ UNCHANGED <<old_files, tabulate_vars, candidate_map_vars, rebuild_vars, reader_vars>>

\* The election the worker of jurisdiction j is at.
ElectionOf(j) == meta[j].elections[election_index[j]]

ContestOf(j) == ElectionOf(j).contests[contest_index[j]]

ContestIdOf(j) == <<j, election_index[j], contest_index[j]>>

Present(j) == raw_path(meta[j], ElectionOf(j).election_path) \in raw

\* and_then(|p| p.get(key)) on the loader parameters of a contest.
param(contest, key) ==
    IF contest.loader_params = None THEN None
    ELSE get(contest.loader_params[1], key)

\* str::parse::<u32> on the numerals of the model.
parse_u32(s) ==
    IF s \in {"1", "01"} THEN Some("1") ELSE IF s = "2" THEN Some("2") ELSE None

\* The contest id of a contest of nist_sp_1500 (report.rs 248-253, 266-271).
contest_id(contest) ==
    IF param(contest, "contest") = None THEN None
    ELSE parse_u32(param(contest, "contest")[1])

\* process_election (report.rs 372-385): the election goes to
\* process_nyc_election_batch.
is_nyc_batch_election(election) ==
    /\ election.data_format = "us_ny_nyc"
    /\ Len(election.contests) > 1
    /\ election.contests[1].loader_params # None
    /\ \A i \in 1..Len(election.contests) :
           /\ election.contests[i].loader_params # None
           /\ param(election.contests[i], "cvrPattern")
                  = param(election.contests[1], "cvrPattern")
           /\ param(election.contests[i], "candidatesFile")
                  = param(election.contests[1], "candidatesFile")

\* process_election (report.rs 369, 417-428): the election goes to
\* process_nist_election_batch.
is_nist_batch_election(election) ==
    /\ election.data_format = "nist_sp_1500"
    /\ Len(election.contests) > 1
    /\ param(election.contests[1], "cvr") # None
    /\ \A i \in 1..Len(election.contests) :
           param(election.contests[i], "cvr") = param(election.contests[1], "cvr")

\* filter_map of the contests to the arguments of the batch reader
\* (report.rs 128-135): the contests that have loader parameters.
contests_with_offices(election) ==
    LET kept == SelectSeq(election.contests, LAMBDA c : c.loader_params # None)
    IN  [i \in 1..Len(kept) |-> <<kept[i].office, kept[i].loader_params[1]>>]

\* filter_map of the contests to the arguments of the batch reader
\* (report.rs 244-256): the contests whose contest id parses.
contests_with_ids(election) ==
    LET kept == SelectSeq(election.contests, LAMBDA c : contest_id(c) # None)
    IN  [i \in 1..Len(kept) |-> <<contest_id(kept[i])[1], kept[i].loader_params[1]>>]

\* What every step of a worker leaves alone.
WorkerFrame ==
    /\ UNCHANGED <<meta, raw, use_cache_preprocess, use_cache_report,
                   force_preprocess, force_report, filtered_jurisdictions,
                   report_pc>>
    /\ UNCHANGED <<old_files, tabulate_vars, candidate_map_vars, rebuild_vars, reader_vars>>

\* process_jurisdiction returns after its last election (report.rs 506-523).
ReturnFromJurisdiction ==
    \E j \in DOMAIN worker_pc :
        /\ report_pc = "par_iter"
        /\ worker_pc[j] = "election"
        /\ election_index[j] > Len(meta[j].elections)
        /\ worker_pc' = [worker_pc EXCEPT ![j] = "returned"]
        /\ UNCHANGED <<files, election_index, contest_index, elections_by_key,
                       contest_index_entries, election_results, ops,
                       batch_reader_calls, written>>
        /\ WorkerFrame

\* process_election takes the sequential path (report.rs 397-416, 440-479).
StartSequential ==
    \E j \in DOMAIN worker_pc :
        /\ report_pc = "par_iter"
        /\ worker_pc[j] = "election"
        /\ election_index[j] <= Len(meta[j].elections)
        /\ ~is_nyc_batch_election(ElectionOf(j))
        /\ ~is_nist_batch_election(ElectionOf(j))
        /\ worker_pc' = [worker_pc EXCEPT ![j] = "sequential"]
        /\ contest_index' = [contest_index EXCEPT ![j] = 1]
        /\ contest_index_entries' = [contest_index_entries EXCEPT ![j] = <<>>]
        /\ UNCHANGED <<files, election_index, elections_by_key, election_results, ops,
                       batch_reader_calls, written>>
        /\ WorkerFrame

\* A batch function calls its batch reader (report.rs 125-138, 241-259): the
\* worker goes on with the map the reader returns, or panics with it.
StartBatch(j, result) ==
    /\ batch_reader_calls' =
           [batch_reader_calls EXCEPT ![<<j, election_index[j]>>] = @ + 1]
    /\ IF result.panic
       THEN /\ worker_pc' = [worker_pc EXCEPT ![j] = "panicked"]
            /\ UNCHANGED <<contest_index, contest_index_entries, elections_by_key>>
       ELSE /\ worker_pc' = [worker_pc EXCEPT ![j] = "batch"]
            /\ contest_index' = [contest_index EXCEPT ![j] = 1]
            /\ contest_index_entries' = [contest_index_entries EXCEPT ![j] = <<>>]
            /\ elections_by_key' = [elections_by_key EXCEPT ![j] = result.value]
    /\ UNCHANGED <<files, election_index, election_results, ops, written>>
    /\ WorkerFrame

\* process_election takes process_nyc_election_batch (report.rs 385-396).
StartNycBatch ==
    \E j \in DOMAIN worker_pc :
        /\ report_pc = "par_iter"
        /\ worker_pc[j] = "election"
        /\ election_index[j] <= Len(meta[j].elections)
        /\ is_nyc_batch_election(ElectionOf(j))
        /\ StartBatch(j, nyc_batch_reader(Present(j), contests_with_offices(ElectionOf(j))))

\* process_election takes process_nist_election_batch (report.rs 428-439).
StartNistBatch ==
    \E j \in DOMAIN worker_pc :
        /\ report_pc = "par_iter"
        /\ worker_pc[j] = "election"
        /\ election_index[j] <= Len(meta[j].elections)
        /\ is_nist_batch_election(ElectionOf(j))
        /\ StartBatch(j, nist_batch_reader(Present(j), contests_with_ids(ElectionOf(j))))

\* The history `written` after the paths of `paths` were written for `who`.
Wrote(paths, who) ==
    [p \in DOMAIN written \cup paths |->
        (IF p \in DOMAIN written THEN written[p] ELSE {})
            \cup (IF p \in paths THEN {who} ELSE {})]

\* The worker of j panics in the contest it is at.
ContestPanics(j) ==
    /\ worker_pc' = [worker_pc EXCEPT ![j] = "panicked"]
    /\ ops' = [ops EXCEPT ![ContestIdOf(j)] = <<"panic">>]
    /\ UNCHANGED <<files, contest_index, contest_index_entries, elections_by_key,
                   written>>

\* The worker of j leaves the contest it is at with the result r of the
\* contest step.
ContestReturns(j, r) ==
    /\ files' = r.files
    /\ ops' = [ops EXCEPT ![ContestIdOf(j)] = r.ops]
    /\ written' = Wrote(r.paths, ContestIdOf(j))
    /\ contest_index_entries' =
           [contest_index_entries EXCEPT ![j] = @ \o r.entry]
    /\ contest_index' = [contest_index EXCEPT ![j] = @ + 1]
    /\ UNCHANGED worker_pc

\* One call of process_contest on the sequential path (report.rs 399-415,
\* 442-458, 462-478).
SequentialContest ==
    \E j \in DOMAIN worker_pc :
        /\ report_pc = "par_iter"
        /\ worker_pc[j] = "sequential"
        /\ contest_index[j] <= Len(ElectionOf(j).contests)
        /\ LET r == process_contest(files, Present(j), ContestOf(j), ElectionOf(j),
                                    meta[j], force_preprocess, force_report)
           IN  IF r.panic THEN ContestPanics(j)
               ELSE ContestReturns(j, r.value)
        /\ UNCHANGED <<election_index, elections_by_key, election_results,
                       batch_reader_calls>>
        /\ WorkerFrame

\* The key under which the batch result holds the contest: its office
\* (report.rs 167) or its contest id (report.rs 266-271, 295).
batch_key(election, contest) ==
    IF election.data_format = "us_ny_nyc" THEN Some(contest.office)
    ELSE contest_id(contest)

\* A skipped contest: the closure of filter_map returns None.
Skipped(fs) == [files |-> fs, ops |-> <<"skipped">>, paths |-> {}, entry |-> None]

\* One call of the closure of a batch function on a contest
\* (report.rs 144-223, 265-351).
BatchContest ==
    \E j \in DOMAIN worker_pc :
        /\ report_pc = "par_iter"
        /\ worker_pc[j] = "batch"
        /\ contest_index[j] <= Len(ElectionOf(j).contests)
        /\ LET key == batch_key(ElectionOf(j), ContestOf(j))
           IN  IF key = None
               THEN /\ ContestReturns(j, Skipped(files))
                    /\ UNCHANGED elections_by_key
               ELSE IF ContestOf(j).office \notin DOMAIN meta[j].offices
               THEN /\ ContestPanics(j)
               ELSE IF key[1] \notin DOMAIN elections_by_key[j]
               THEN /\ ContestReturns(j, Skipped(files))
                    /\ UNCHANGED elections_by_key
               ELSE /\ ContestReturns(j,
                           process_batch_contest(files, elections_by_key[j][key[1]],
                               ContestOf(j), ElectionOf(j), meta[j],
                               force_preprocess, force_report).value)
                    /\ elections_by_key' =
                           [elections_by_key EXCEPT ![j] =
                               [k \in DOMAIN @ \ {key[1]} |-> @[k]]]
        /\ UNCHANGED <<election_index, election_results, batch_reader_calls>>
        /\ WorkerFrame

\* Mutant of sort_contests: the entries are sorted by office id.
sort_contests_by_office(entries) ==
    sort_by_key(entries, [i \in 1..Len(entries) |-> StringRank(entries[i].office)])

\* sorted_contests.sort_by(|a, b| a.office_name.cmp(&b.office_name))
\* (report.rs 482-483, 679).
sort_contests(entries) ==
    sort_by_key(entries,
                [i \in 1..Len(entries) |-> StringRank(entries[i].office_name)])

\* (a.date, a.path) < (b.date, b.path) as tuples of strings.
DatePathLess(a, b) ==
    \/ StringRank(a.date) < StringRank(b.date)
    \/ a.date = b.date /\ PathLess(a.path, b.path)

\* The position of entries[i] in the ascending order of (date, path): the
\* number of entries below it.
DatePathRank(entries, i) ==
    Cardinality({n \in 1..Len(entries) : DatePathLess(entries[n], entries[i])})

\* Mutant of sort_elections: ascending (date, path).
sort_elections_ascending(entries) ==
    sort_by_key(entries, [i \in 1..Len(entries) |-> DatePathRank(entries, i)])

\* election_index_entries.sort_by(|a, b| (&b.date, &b.path).cmp(&(&a.date, &a.path)))
\* (report.rs 582, 675): stable, descending (date, path).
sort_elections(entries) ==
    sort_by_key(entries, [i \in 1..Len(entries) |-> -DatePathRank(entries, i)])

\* The ElectionIndexEntry of process_election (report.rs 485-491).
ElectionIndexEntry(jurisdiction, election, contests) ==
    [path              |-> jurisdiction.path \o election.election_path,
     jurisdiction_name |-> jurisdiction.name,
     election_name     |-> election.name,
     date              |-> election.date,
     contests          |-> contests]

\* process_election returns after its last contest (report.rs 481-491).
EndElection ==
    \E j \in DOMAIN worker_pc :
        /\ report_pc = "par_iter"
        /\ worker_pc[j] \in {"sequential", "batch"}
        /\ contest_index[j] > Len(ElectionOf(j).contests)
        /\ election_results' =
               [election_results EXCEPT ![j] =
                   Append(@, ElectionIndexEntry(meta[j], ElectionOf(j),
                                                sort_contests(contest_index_entries[j])))]
        /\ election_index' = [election_index EXCEPT ![j] = @ + 1]
        /\ worker_pc' = [worker_pc EXCEPT ![j] = "election"]
        /\ elections_by_key' = [elections_by_key EXCEPT ![j] = <<>>]
        /\ UNCHANGED <<files, contest_index, contest_index_entries, ops,
                       batch_reader_calls, written>>
        /\ WorkerFrame

RECURSIVE Flatten(_)
\* Iterator::flatten on a sequence of sequences.
Flatten(ss) == IF ss = <<>> THEN <<>> ELSE Head(ss) \o Flatten(Tail(ss))

index_path == report_dir \o <<"index.json">>

\* The ReportIndex of a vector of ElectionIndexEntrys.
ReportIndex(election_index_entries) == [elections |-> election_index_entries]

\* Every worker returned: report flattens the results, sorts them and
\* writes index.json (report.rs 576-588).
WriteIndex ==
    /\ report_pc = "par_iter"
    /\ \A j \in DOMAIN worker_pc : worker_pc[j] = "returned"
    /\ files' = write_serialized(files, index_path,
           ReportIndex(sort_elections(Flatten(
               [n \in 1..Len(filtered_jurisdictions) |->
                   election_results[filtered_jurisdictions[n]]]))))
    /\ written' = Wrote({index_path}, "index")
    /\ report_pc' = "done"
    /\ UNCHANGED <<meta, raw, use_cache_preprocess, use_cache_report,
                   force_preprocess, force_report, filtered_jurisdictions,
                   worker_pc, election_index, contest_index, elections_by_key,
                   contest_index_entries, election_results, ops,
                   batch_reader_calls>>
    /\ UNCHANGED <<old_files, tabulate_vars, candidate_map_vars, rebuild_vars, reader_vars>>

\* A worker panicked: once the workers have stopped the parallel iterator
\* resumes the panic in report (report.rs 564-576), which ends there.
ResumePanic ==
    /\ report_pc = "par_iter"
    /\ \A j \in DOMAIN worker_pc : worker_pc[j] \in {"returned", "panicked"}
    /\ \E j \in DOMAIN worker_pc : worker_pc[j] = "panicked"
    /\ report_pc' = "panicked"
    /\ UNCHANGED <<meta, raw, files, use_cache_preprocess, use_cache_report,
                   force_preprocess, force_report, filtered_jurisdictions,
                   worker_pc, election_index, contest_index, elections_by_key,
                   contest_index_entries, election_results, ops,
                   batch_reader_calls, written>>
    /\ UNCHANGED <<old_files, tabulate_vars, candidate_map_vars, rebuild_vars, reader_vars>>

NextReport ==
    \/ Main
    \/ ReturnFromJurisdiction
    \/ StartSequential
    \/ StartNycBatch
    \/ StartNistBatch
    \/ SequentialContest
    \/ BatchContest
    \/ EndElection
    \/ WriteIndex
    \/ ResumePanic

\* One run of the report command on the metadata, source files and
\* artifacts of InitReport, under every interleaving of the workers.

(***************************************************************************)
(* rebuild_index (commands/report.rs 591-690).                             *)
(***************************************************************************)

\* The ContestReport of a contest of office `office` of the election
\* `election_path` of jurisdiction `jurisdiction_path`.
ReportOf(jurisdiction_path, election_path, date, office, office_name) ==
    generate_report(
        [info       |-> [office            |-> office,
                         office_name       |-> office_name,
                         jurisdiction_path |-> jurisdiction_path,
                         election_path     |-> election_path,
                         jurisdiction_name |-> "Jurisdiction",
                         election_name     |-> "General Election",
                         date              |-> date],
         candidates |-> RawElection.candidates,
         ballots    |-> RawElection.ballots])

\* What a file that read_serialized cannot parse holds.
Unparseable == [unparseable |-> TRUE]

\* The report.json files a report directory can hold: two contests of one
\* election, a report that lies in report_dir itself, a contest of a later
\* election, and a report whose info names another election than the
\* directory it lies in.
ReportFiles ==
    { <<report_dir \o <<"us", "vt", "2020", "mayor", "report.json">>,
        ReportOf(<<"us", "vt">>, <<"2020">>, "2019-11-05", "mayor", "Mayor")>>,
      <<report_dir \o <<"us", "vt", "2020", "council", "report.json">>,
        ReportOf(<<"us", "vt">>, <<"2020">>, "2019-11-05", "council", "Town Council")>>,
      <<report_dir \o <<"report.json">>,
        ReportOf(<<"us", "ca", "sfo">>, <<"2019">>, "2019-11-05", "mayor", "Mayor")>>,
      <<report_dir \o <<"us", "ca", "sfo", "2020", "mayor", "report.json">>,
        ReportOf(<<"us", "ca", "sfo">>, <<"2020">>, "2020-11-03", "mayor", "Mayor")>>,
      <<report_dir \o <<"us", "ny", "2020", "council", "report.json">>,
        ReportOf(<<"us", "vt">>, <<"2020">>, "2019-11-05", "council", "Council")>> }

\* The files that are no report.json: an index of an earlier run and a
\* preprocessed artifact.
OtherFiles ==
    { <<index_path, ReportIndex(<<>>)>>,
      <<preprocessed_dir \o <<"us", "vt", "2020", "mayor", "normalized.json.gz">>,
        [info |-> "any", candidates |-> <<>>, ballots |-> <<>>]>> }

\* The file system that holds the files of F, those of U unparseable.
FileSystem(F, U) ==
    [p \in {f[1] : f \in F} |->
        LET f == CHOOSE g \in F : g[1] = p
        IN  IF f \in U THEN Unparseable ELSE f[2]]

\* The state before rebuild_index runs.
InitRebuildIndex ==
    /\ \E F \in SUBSET ReportFiles :
           \E U \in SUBSET F :
               files = FileSystem(F \cup OtherFiles, U)
    /\ old_files = files
    /\ meta = <<>>
    /\ raw = {}
    /\ use_cache_preprocess = FALSE
    /\ use_cache_report = FALSE
    /\ force_preprocess = FALSE
    /\ force_report = FALSE
    /\ filtered_jurisdictions = <<>>
    /\ report_pc = "idle"
    /\ worker_pc = <<>>
    /\ election_index = <<>>
    /\ contest_index = <<>>
    /\ elections_by_key = <<>>
    /\ contest_index_entries = <<>>
    /\ election_results = <<>>
    /\ ops = <<>>
    /\ batch_reader_calls = <<>>
    /\ written = [p \in {} |-> {}]
    /\ rebuild_pc = "scan"
    /\ report_files = <<>>
    /\ reports_found = 0
    /\ reports_processed = 0
    /\ election_map = [p \in {} |-> <<>>]
    /\ TabulateIdle
    /\ CandidateMapFresh
    /\ ReaderIdle

\* What every step of rebuild_index leaves alone.
RebuildFrame ==
    UNCHANGED <<meta, raw, old_files, use_cache_preprocess, use_cache_report,
                force_preprocess, force_report, filtered_jurisdictions, report_pc,
                worker_pc, election_index, contest_index, elections_by_key,
                contest_index_entries, election_results, ops, batch_reader_calls,
                tabulate_vars, candidate_map_vars, reader_vars>>

\* find_report_files (report.rs 600-614): the files named report.json under
\* report_dir, in the order read_dir yields them.
FindReportFiles ==
    /\ rebuild_pc = "scan"
    /\ report_files' \in
           Orders({p \in DOMAIN files :
                      /\ SubSeq(p, 1, Len(report_dir)) = report_dir
                      /\ p[Len(p)] = "report.json"})
    /\ rebuild_pc' = "loop"
    /\ UNCHANGED <<files, written, reports_found, reports_processed, election_map>>
    /\ RebuildFrame

\* The election path of a report file (report.rs 620-624): the path relative
\* to report_dir without its last two components; None when the file lies
\* in report_dir itself.
election_path_of(report_path_) ==
    LET relative_path == SubSeq(report_path_, Len(report_dir) + 1, Len(report_path_))
    IN  IF Len(relative_path) < 2 THEN None
        ELSE Some(SubSeq(relative_path, 1, Len(relative_path) - 2))

\* Mutant of full_election_path: the election is the one the info of the
\* report names.
full_election_path_from_info(report_path_, contest_report) ==
    contest_report.info.jurisdiction_path \o contest_report.info.election_path

\* full_election_path (report.rs 635-637).
full_election_path(report_path_, contest_report) ==
    IF election_path_of(report_path_) = None
    THEN contest_report.info.jurisdiction_path \o contest_report.info.election_path
    ELSE election_path_of(report_path_)[1]

\* election_map.entry(..).or_insert_with(..) followed by the push of the
\* contest entry (report.rs 659-669).
push_contest(map, path, contest_report) ==
    LET election_entry ==
            IF path \in DOMAIN map THEN map[path]
            ELSE [path              |-> path,
                  jurisdiction_name |-> contest_report.info.jurisdiction_name,
                  election_name     |-> contest_report.info.election_name,
                  date              |-> contest_report.info.date,
                  contests          |-> <<>>]
    IN  [p \in DOMAIN map \cup {path} |->
            IF p = path
            THEN [election_entry EXCEPT
                     !.contests = Append(@, ContestIndexEntry(contest_report))]
            ELSE map[p]]

\* One iteration of the loop over report_files (report.rs 616-671): a report
\* that does not parse is skipped.
ReadReport ==
    /\ rebuild_pc = "loop"
    /\ reports_found < Len(report_files)
    /\ reports_found' = reports_found + 1
    /\ LET report_path_ == report_files[reports_found + 1]
       IN  IF files[report_path_] = Unparseable
           THEN UNCHANGED <<reports_processed, election_map>>
           ELSE /\ reports_processed' = reports_processed + 1
                /\ election_map' =
                       push_contest(election_map,
                           full_election_path(report_path_, files[report_path_]),
                           files[report_path_])
    /\ UNCHANGED <<files, written, rebuild_pc, report_files>>
    /\ RebuildFrame

\* After the loop (report.rs 673-690): the elections in the order
\* into_values yields them are sorted, then the contests of each, and
\* index.json is written.
WriteRebuiltIndex ==
    /\ rebuild_pc = "loop"
    /\ reports_found = Len(report_files)
    /\ \E values \in Orders({election_map[p] : p \in DOMAIN election_map}) :
           LET election_index_entries == sort_elections(values)
           IN  files' = write_serialized(files, index_path,
                   ReportIndex([i \in 1..Len(election_index_entries) |->
                       [election_index_entries[i] EXCEPT
                           !.contests = sort_contests(@)]]))
    /\ written' = Wrote({index_path}, "index")
    /\ rebuild_pc' = "done"
    /\ UNCHANGED <<report_files, reports_found, reports_processed, election_map>>
    /\ RebuildFrame

NextRebuildIndex == FindReportFiles \/ ReadReport \/ WriteRebuiltIndex

\* One run of the report command or of the rebuild-index command.
InitCommands == InitReport \/ InitRebuildIndex

NextCommands == NextReport \/ NextRebuildIndex

SpecCommands == InitCommands /\ [][NextCommands]_vars

(***************************************************************************)
(* Observations on a run of report.                                        *)
(***************************************************************************)

\* The contests the run has processed: those a contest step has ended for.
Processed == { c \in DOMAIN ops : ops[c] # <<>> }

\* The contests whose artifacts of a previous run exist.
HadReport(c) == PathOfReport(meta, c) \in DOMAIN old_files

HadPreprocessed(c) == PathOfPreprocessed(meta, c) \in DOMAIN old_files

\* The artifact files written on behalf of the contest c.
WrittenFor(c) == { p \in DOMAIN written : c \in written[p] }

\* The operations made for the contest c, as a set.
OpsOf(c) == { ops[c][i] : i \in DOMAIN ops[c] }

\* C11: when report.json and normalized.json.gz of a contest both exist
\* and both cache flags permit reuse, processing the contest only loads the
\* report: no raw source is read (no reader and no batch reader runs for its
\* election), nothing is preprocessed or tabulated and no artifact is
\* written, on the sequential and on the batch path alike.
C11_CachedContestOnlyLoadsReport ==
    \A c \in Processed :
        (HadReport(c) /\ HadPreprocessed(c)
            /\ use_cache_preprocess /\ use_cache_report)
        => /\ ops[c] = <<"read_report">>
           /\ batch_reader_calls[<<c[1], c[2]>>] = 0
           /\ WrittenFor(c) = {}

\* The report of the contest c has to be generated anew: there is none, or
\* the report cache may not be used.
MustRegenerate(c) == ~HadReport(c) \/ ~use_cache_report

\* C12: when the report must be regenerated, normalized.json.gz exists and
\* --use-cache-preprocess permits its reuse, the artifact is loaded, nothing
\* is parsed or normalized and the artifact is not rewritten; a contest is
\* read, normalized and its artifact rewritten only when the artifact is
\* absent or the preprocess cache may not be used.
C12_PreprocessedArtifactReused ==
    \A c \in Processed :
        /\ (MustRegenerate(c) /\ HadPreprocessed(c) /\ use_cache_preprocess)
           => /\ ops[c] = <<"read_preprocessed", "generate_report", "write_report">>
              /\ batch_reader_calls[<<c[1], c[2]>>] = 0
              /\ PathOfPreprocessed(meta, c) \notin WrittenFor(c)
        /\ ("normalize" \in OpsOf(c))
           => (~HadPreprocessed(c) \/ ~use_cache_preprocess)

\* The contests of the election all carry the bundle key and agree on it.
SharesKey(election, key) ==
    \A i \in 1..Len(election.contests) :
        /\ param(election.contests[i], key) # None
        /\ param(election.contests[i], key) = param(election.contests[1], key)

\* An election of more than one contest whose contests share the bundle
\* keys of its format.
SharesBundleKeys(election) ==
    /\ Len(election.contests) > 1
    /\ \/ election.data_format = "nist_sp_1500" /\ SharesKey(election, "cvr")
       \/ /\ election.data_format = "us_ny_nyc"
          /\ SharesKey(election, "cvrPattern")
          /\ SharesKey(election, "candidatesFile")

\* The elections process_election has returned from.
ElectionsDone ==
    { e \in DOMAIN batch_reader_calls :
          e[1] \in DOMAIN worker_pc /\ election_index[e[1]] > e[2] }

\* C13: an election of more than one contest whose contests share the
\* bundle keys gets one call of the batch reader and no call of a
\* per-contest reader; for every other election the batch reader is never
\* called and its contests go through the sequential path.
C13_BatchDispatch ==
    \A e \in DOMAIN batch_reader_calls :
        LET election == meta[e[1]].elections[e[2]]
        IN  IF SharesBundleKeys(election)
            THEN /\ batch_reader_calls[e] <= 1
                 /\ \A c \in Processed :
                        (c[1] = e[1] /\ c[2] = e[2]) => "read_raw" \notin OpsOf(c)
                 /\ e \in ElectionsDone => batch_reader_calls[e] = 1
            ELSE batch_reader_calls[e] = 0

\* The run of report has ended: index.json is written, the list of
\* jurisdictions was empty, or a panic has ended the process.
ReportEnded == report_pc \in {"done", "returned", "panicked"}

\* The elections of the index file, none when there is no index file.
IndexElections ==
    IF index_path \in DOMAIN files THEN files[index_path].elections ELSE <<>>

\* C14: when the processing of a contest panics, the contests of every
\* other jurisdiction are still processed to the end and index.json is
\* still written and holds their elections.
C14_PanicIsLocal ==
    (/\ ReportEnded
     /\ \E j \in DOMAIN worker_pc, i \in DOMAIN worker_pc :
            j # i /\ worker_pc[j] = "panicked")
    => /\ \A j \in DOMAIN worker_pc :
              worker_pc[j] # "panicked" => worker_pc[j] = "returned"
       /\ index_path \in DOMAIN written
       /\ \A j \in DOMAIN worker_pc :
              worker_pc[j] = "returned" =>
                  \A k \in DOMAIN election_results[j] :
                      \E n \in DOMAIN IndexElections :
                          IndexElections[n] = election_results[j][k]

\* The loader parameters the reader of a format requires.
RequiredParams(data_format) ==
    IF data_format = "us_vt_btv" THEN {"ballots"}
    ELSE IF data_format = "us_mn_mpls" THEN {"file"}
    ELSE IF data_format = "us_ny_nyc" THEN NycKeys
    ELSE {"cvr", "contest"}

\* Every contest of the election e names an office of the jurisdiction and
\* carries the loader parameters of its format.
WellConfigured(e) ==
    LET election == meta[e[1]].elections[e[2]]
    IN  \A i \in 1..Len(election.contests) :
            /\ election.contests[i].office \in DOMAIN meta[e[1]].offices
            /\ election.contests[i].loader_params # None
            /\ RequiredParams(election.data_format)
                   \subseteq DOMAIN election.contests[i].loader_params[1]

\* The source files of the election e are absent.
InputAbsent(e) ==
    raw_path(meta[e[1]], meta[e[1]].elections[e[2]].election_path) \notin raw

\* The contest c was read from its source files by this run and its report
\* written.
ReadFromSource(c) ==
    /\ "write_report" \in OpsOf(c)
    /\ \/ "read_raw" \in OpsOf(c)
       \/ batch_reader_calls[<<c[1], c[2]>>] > 0 /\ "normalize" \in OpsOf(c)

\* C15: when the input of a reader (BTV, Minneapolis, NYC single-contest,
\* NYC batch) is absent the reader returns the empty Election instead of
\* failing: the worker does not panic in the election and each contest read
\* gets a report with zero ballots and no winner.
C15_AbsentInputDegrades ==
    \A e \in DOMAIN batch_reader_calls :
        (/\ meta[e[1]].elections[e[2]].data_format
                \in {"us_vt_btv", "us_mn_mpls", "us_ny_nyc"}
         /\ WellConfigured(e)
         /\ InputAbsent(e))
        => /\ e[1] \in DOMAIN worker_pc =>
                  ~(worker_pc[e[1]] = "panicked" /\ election_index[e[1]] = e[2])
           /\ \A c \in Processed :
                  (c[1] = e[1] /\ c[2] = e[2] /\ ReadFromSource(c))
                  => /\ files[PathOfReport(meta, c)].ballot_count = 0
                     /\ files[PathOfReport(meta, c)].winner = None

\* The path of the election e: the path of its jurisdiction joined with its
\* election path.
JoinedPath(m, e) == m[e[1]].path \o m[e[1]].elections[e[2]].election_path

\* The metadata name every election by a path of its own and no election
\* lists an office twice.
DistinctContests(m) ==
    /\ \A e \in ElectionIds(m), f \in ElectionIds(m) :
           e # f => JoinedPath(m, e) # JoinedPath(m, f)
    /\ \A c \in ContestIds(m), d \in ContestIds(m) :
           (c # d /\ c[1] = d[1] /\ c[2] = d[2])
           => m[c[1]].elections[c[2]].contests[c[3]].office
                  # m[d[1]].elections[d[2]].contests[d[3]].office

\* C16 as stated: in every interleaving of the workers no artifact file is
\* written on behalf of two different contests.
C16_DistinctPaths_Original ==
    \A p \in DOMAIN written : Cardinality(written[p]) <= 1

\* C16: when the joined paths of the elections differ and no election lists
\* an office twice, in every interleaving of the workers no artifact file is
\* written on behalf of two different contests.
C16_DistinctPaths ==
    DistinctContests(meta) => \A p \in DOMAIN written : Cardinality(written[p]) <= 1

\* Two workers are in the middle of their elections and both have written
\* artifacts, under metadata of distinct contests.
C16_Witness ==
    /\ DistinctContests(meta)
    /\ \E j \in DOMAIN worker_pc, i \in DOMAIN worker_pc :
           /\ j # i
           /\ worker_pc[j] \in {"sequential", "batch"}
           /\ worker_pc[i] \in {"sequential", "batch"}
           /\ \E p \in DOMAIN written, q \in DOMAIN written :
                  /\ \E c \in written[p] : c # "index" /\ c[1] = j
                  /\ \E c \in written[q] : c # "index" /\ c[1] = i

\* The contests of an index entry are in ascending order of office name.
ContestsAscending(contests) ==
    \A a \in DOMAIN contests, b \in DOMAIN contests :
        a < b => StringRank(contests[a].office_name)
                     <= StringRank(contests[b].office_name)

\* The elections are in descending order of (date, path): no entry is below
\* an entry placed after it.
ElectionsDescending(elections) ==
    \A a \in DOMAIN elections, b \in DOMAIN elections :
        a < b => ~DatePathLess(elections[a], elections[b])

\* A command has written its index.
IndexWritten == report_pc = "done" \/ rebuild_pc = "done"

\* C17: the index written by report and by rebuild_index lists the
\* contests of each election in ascending order of office name and the
\* elections in descending order of (date, path).
C17_IndexOrder ==
    IndexWritten
    => /\ index_path \in DOMAIN files
       /\ ElectionsDescending(IndexElections)
       /\ \A n \in DOMAIN IndexElections :
              ContestsAscending(IndexElections[n].contests)

\* An index written by report with two elections of different (date, path)
\* and an election with two contests of different office names.
C17_Witness ==
    /\ report_pc = "done"
    /\ \E a \in DOMAIN IndexElections, b \in DOMAIN IndexElections :
           a < b /\ DatePathLess(IndexElections[b], IndexElections[a])
    /\ \E n \in DOMAIN IndexElections :
           \E a \in DOMAIN IndexElections[n].contests,
              b \in DOMAIN IndexElections[n].contests :
               a < b /\ IndexElections[n].contests[a].office_name
                            # IndexElections[n].contests[b].office_name

\* The files named report.json under report_dir before the command.
ReportsBefore ==
    { p \in DOMAIN old_files :
          SubSeq(p, 1, Len(report_dir)) = report_dir /\ p[Len(p)] = "report.json" }

ParseableReports == { p \in ReportsBefore : old_files[p] # Unparseable }

\* The election a report file belongs to by its place: the directory two
\* levels above the file, relative to report_dir.  A report.json in
\* report_dir itself has no such directory and belongs to the election its
\* info names.
ElectionOfPath(p) ==
    IF Len(p) - Len(report_dir) >= 2
    THEN SubSeq(p, Len(report_dir) + 1, Len(p) - 2)
    ELSE old_files[p].info.jurisdiction_path \o old_files[p].info.election_path

\* The parseable reports of the election of path `path`.
ReportsOfElection(path) == { p \in ParseableReports : ElectionOfPath(p) = path }

MaxRanks == 2

\* The number of lines or rows of a source file.
MaxRows == 3

\* The width of u32, scaled to WordBits bits: the wrap of candidate_id - 1
\* and the range of parse::<u32> keep their shape at the smaller width.
WordBits == 16

\* The ranks of the ballot sources: well-formed votes, overvotes, candidate
\* number 0, and ranks that are no vote.
Ranks ==
    { <<"C", "1">>,
      <<"C", "0", "2">>,
      <<"C", "0", "3">>,
      <<"C", "0", "4", "=", "C", "0", "6">>,
      <<"=">>,
      <<"C", "0">>,
      <<"C">>,
      <<>>,
      <<"1">> }

RECURSIVE Join(_, _)
\* The strings of `ranks` joined by `separator`.
Join(ranks, separator) ==
    IF Len(ranks) = 1 THEN ranks[1]
    ELSE ranks[1] \o separator \o Join(Tail(ranks), separator)

\* The ballot sources: the empty string and one to MaxRanks ranks joined by
\* commas.
Sources ==
    {<<>>} \cup
    UNION { { Join(ranks, <<",">>) : ranks \in [1..n -> Ranks] } : n \in 1..MaxRanks }

\* str::contains(char).
contains(str, char) == \E i \in DOMAIN str : str[i] = char

RECURSIVE split(_, _)
\* str::split(char): the pieces between the occurrences of char, in order.
split(str, char) ==
    IF ~contains(str, char) THEN <<str>>
    ELSE LET i == CHOOSE n \in DOMAIN str :
                      str[n] = char /\ \A m \in 1..(n - 1) : str[m] # char
         IN  <<SubSeq(str, 1, i - 1)>> \o split(SubSeq(str, i + 1, Len(str)), char)

\* str::strip_prefix(char).
strip_prefix(str, char) ==
    IF str # <<>> /\ str[1] = char THEN Some(Tail(str)) ELSE None

Digits == <<"0", "1", "2", "3", "4", "5", "6", "7", "8", "9">>

DigitValue(char) == (CHOOSE i \in DOMAIN Digits : Digits[i] = char) - 1

RECURSIVE DecimalValue(_)
DecimalValue(str) ==
    IF str = <<>> THEN 0
    ELSE 10 * DecimalValue(SubSeq(str, 1, Len(str) - 1)) + DigitValue(str[Len(str)])

\* str::parse::<u32>() on a string without sign: Some(n) for one or more
\* digits of a value that fits the word, None otherwise.
str_parse_u32(str) ==
    IF str = <<>> \/ \E i \in DOMAIN str : \A d \in DOMAIN Digits : Digits[d] # str[i]
    THEN None
    ELSE IF DecimalValue(str) >= 2^WordBits THEN None
    ELSE Some(DecimalValue(str))

\* Mutant of parse_rank: candidate numbers are taken as internal ids.
parse_rank_zero_based(rank, overflow_checks) ==
    IF contains(rank, "=") THEN Returned(Overvote)
    ELSE IF strip_prefix(rank, "C") = None THEN Panicked
    ELSE IF str_parse_u32(strip_prefix(rank, "C")[1]) = None THEN Panicked
    ELSE Returned(Vote(str_parse_u32(strip_prefix(rank, "C")[1])[1]))

\* The body of the loop of parse_ballot (mod.rs 34-41).  candidate_id - 1
\* on u32 panics for 0 in a build with overflow checks and wraps without.
parse_rank(rank, overflow_checks) ==
    IF contains(rank, "=") THEN Returned(Overvote)
    ELSE IF strip_prefix(rank, "C") = None THEN Panicked
    ELSE IF str_parse_u32(strip_prefix(rank, "C")[1]) = None THEN Panicked
    ELSE LET candidate_id == str_parse_u32(strip_prefix(rank, "C")[1])[1]
         IN  IF candidate_id = 0 /\ overflow_checks THEN Panicked
             ELSE Returned(Vote((candidate_id + 2^WordBits - 1) % 2^WordBits))

RECURSIVE parse_ranks(_, _)
\* The loop of parse_ballot (mod.rs 33-43).
parse_ranks(ranks, overflow_checks) ==
    IF ranks = <<>> THEN Returned(<<>>)
    ELSE LET choice == parse_rank(Head(ranks), overflow_checks)
             rest == parse_ranks(Tail(ranks), overflow_checks)
         IN  IF choice.panic \/ rest.panic THEN Panicked
             ELSE Returned(<<choice.value>> \o rest.value)

\* parse_ballot (mod.rs 25-46).
parse_ballot(source, overflow_checks) ==
    IF source = <<>> THEN Returned(<<>>)
    ELSE parse_ranks(split(source, ","), overflow_checks)

\* The state before a call of parse_ballot: the source and the build.
InitParseBallot ==
    /\ reader_pc = "parse_ballot"
    /\ \E source \in Sources, overflow_checks \in BOOLEAN :
           reader_input = [source |-> source, overflow_checks |-> overflow_checks]
    /\ reader_position = 0
    /\ reader_output = <<>>
    /\ parse_calls = <<>>
    /\ TabulateIdle
    /\ CandidateMapFresh
    /\ ReportIdle
    /\ RebuildIdle

\* The call of parse_ballot.
CallParseBallot ==
    /\ reader_pc = "parse_ballot"
    /\ LET result == parse_ballot(reader_input.source, reader_input.overflow_checks)
       IN  /\ parse_calls' = Append(parse_calls,
                  [source |-> reader_input.source, result |-> result])
           /\ reader_output' = result
           /\ reader_pc' = IF result.panic THEN "panicked" ELSE "done"
    /\ UNCHANGED <<reader_input, reader_position>>
    /\ UNCHANGED <<tabulate_vars, candidate_map_vars, report_vars, rebuild_vars>>

SpecParseBallot == InitParseBallot /\ [][CallParseBallot]_vars

\* The positions of the commas of a source, and the number of its ranks.
CommasOf(source) == { i \in DOMAIN source : source[i] = "," }

NumRanks(source) == Cardinality(CommasOf(source)) + 1

\* The position of the comma that ends rank i: Len + 1 for the last rank,
\* 0 for i = 0.
RankEnd(source, i) ==
    IF i = 0 THEN 0
    ELSE IF i = NumRanks(source) THEN Len(source) + 1
    ELSE CHOOSE p \in CommasOf(source) :
             Cardinality({ q \in CommasOf(source) : q < p }) = i - 1

\* Rank i of a source.
RankOf(source, i) ==
    SubSeq(source, RankEnd(source, i - 1) + 1, RankEnd(source, i) - 1)

\* The rank is C<n> with n from 1.
IsCandidateRank(rank) ==
    /\ rank # <<>>
    /\ rank[1] = "C"
    /\ str_parse_u32(Tail(rank)) # None
    /\ str_parse_u32(Tail(rank)) # Some(0)

\* C23: parse_ballot maps the empty string to the empty list; of any other
\* source whose ranks are overvotes (hold '=') or candidate ranks C<n>, it
\* maps each comma-separated rank in order to one Choice, Overvote for an
\* overvote and Vote(n - 1) for C<n>, so that the result has as many choices
\* as the source has ranks.
C23_ParseBallot ==
    \A k \in DOMAIN parse_calls :
        LET source == parse_calls[k].source
            result == parse_calls[k].result
        IN  /\ source = <<>> => result = Returned(<<>>)
            /\ (/\ source # <<>>
                /\ \A i \in 1..NumRanks(source) :
                       \/ contains(RankOf(source, i), "=")
                       \/ IsCandidateRank(RankOf(source, i)))
               => /\ ~result.panic
                  /\ Len(result.value) = NumRanks(source)
                  /\ \A i \in 1..NumRanks(source) :
                         result.value[i] =
                             IF contains(RankOf(source, i), "=") THEN Overvote
                             ELSE Vote(DecimalValue(Tail(RankOf(source, i))) - 1)

\* parse_ballot("C04=C06,C03") has returned [Overvote, Vote(2)].
C23_Witness ==
    \E k \in DOMAIN parse_calls :
        /\ parse_calls[k].source = <<"C", "0", "4", "=", "C", "0", "6", ",", "C", "0", "3">>
        /\ parse_calls[k].result = Returned(<<Overvote, Vote(2)>>)

(***************************************************************************)
(* btv_ballot_reader (formats/us_vt_btv/mod.rs 48-121).                    *)
(*                                                                         *)
(* A line of the ballots file is given by what the two regular expressions *)
(* capture of it: a candidate line by its number (a string of digits) and  *)
(* its name, a ballot line by its id and its votes, any other line by      *)
(* nothing.                                                                *)
(***************************************************************************)

CandidateLine(number, name) == [kind |-> "candidate", number |-> number, name |-> name]

BallotLine(id, votes) == [kind |-> "ballot", id |-> id, votes |-> votes]

OtherLine == [kind |-> "other"]

\* The lines of the ballots files: the declarations of candidates 1 and 2,
\* a declaration of candidate 0, ballots whose votes name declared and
\* undeclared candidates, and a line that matches neither expression.
BtvLines ==
    { CandidateLine(<<"1">>, "a"),
      CandidateLine(<<"0", "2">>, "b"),
      CandidateLine(<<"0">>, "c"),
      BallotLine("x", <<"C", "1">>),
      BallotLine("x", <<"C", "0", "2", ",", "C", "1">>),
      BallotLine("x", <<"C", "0", "3">>),
      BallotLine("x", <<"C", "0", "4", "=", "C", "0", "6", ",", "C", "0", "3">>),
      BallotLine("x", <<"C", "0">>),
      BallotLine("x", <<"1">>),
      OtherLine }

\* The ballots files: sequences of up to MaxRows lines.
BtvFiles == UNION { [1..n -> BtvLines] : n \in 0..MaxRows }

\* Election::new(candidates, ballots).
Election(election_candidates, election_ballots) ==
    [candidates |-> election_candidates, ballots |-> election_ballots]

\* The state before btv_ballot_reader: the ballots file, if it is there,
\* and the build.
InitBtvReader ==
    /\ reader_pc = "open"
    /\ \E file \in {None} \cup { Some(lines) : lines \in BtvFiles }, overflow_checks \in BOOLEAN :
           reader_input = [file |-> file, overflow_checks |-> overflow_checks]
    /\ reader_position = 0
    /\ reader_output = Election(<<>>, <<>>)
    /\ parse_calls = <<>>
    /\ TabulateIdle
    /\ CandidateMapFresh
    /\ ReportIdle
    /\ RebuildIdle

BtvFrame == UNCHANGED <<tabulate_vars, candidate_map_vars, report_vars, rebuild_vars>>

\* File::open (mod.rs 79-89): a file that cannot be opened gives the empty
\* election.
OpenBallots ==
    /\ reader_pc = "open"
    /\ reader_pc' = IF reader_input.file = None THEN "done" ELSE "lines"
    /\ reader_position' = 1
    /\ UNCHANGED <<reader_input, reader_output, parse_calls>>
    /\ BtvFrame

\* One turn of the loop over the lines (mod.rs 98-114).
ReadLine ==
    /\ reader_pc = "lines"
    /\ reader_position <= Len(reader_input.file[1])
    /\ LET line == reader_input.file[1][reader_position]
           id == str_parse_u32(line.number)
           choices == parse_ballot(line.votes, reader_input.overflow_checks)
       IN  IF line.kind = "candidate"
           THEN \* parse().unwrap(), then assert_eq!(id - 1, candidates.len())
                IF id = None \/ id = Some(0) \/ id[1] - 1 # Len(reader_output.candidates)
                THEN /\ reader_pc' = "panicked"
                     /\ UNCHANGED <<reader_output, parse_calls>>
                ELSE /\ reader_pc' = "lines"
                     /\ reader_output' = Election(
                            Append(reader_output.candidates, line.name),
                            reader_output.ballots)
                     /\ UNCHANGED parse_calls
           ELSE IF line.kind = "ballot"
           THEN /\ parse_calls' = Append(parse_calls,
                       [source |-> line.votes, result |-> choices])
                /\ IF choices.panic
                   THEN /\ reader_pc' = "panicked"
                        /\ UNCHANGED reader_output
                   ELSE /\ reader_pc' = "lines"
                        /\ reader_output' = Election(
                               reader_output.candidates,
                               Append(reader_output.ballots,
                                      [id |-> line.id, choices |-> choices.value]))
           ELSE /\ reader_pc' = "lines"
                /\ UNCHANGED <<reader_output, parse_calls>>
    /\ reader_position' = reader_position + 1
    /\ UNCHANGED reader_input
    /\ BtvFrame

\* The end of the lines: the election is returned (mod.rs 116-120).
ReturnElection ==
    /\ reader_pc = "lines"
    /\ reader_position > Len(reader_input.file[1])
    /\ reader_pc' = "done"
    /\ UNCHANGED <<reader_input, reader_position, reader_output, parse_calls>>
    /\ BtvFrame

NextBtvReader == OpenBallots \/ ReadLine \/ ReturnElection

SpecBtvReader == InitBtvReader /\ [][NextBtvReader]_vars

\* C22: every vote of a ballot of the election that btv_ballot_reader
\* returns names a candidate of the election: Vote(c) has c below the
\* number of candidates.
C22_VotesNameCandidates ==
    (reader_pc = "done" /\ "candidates" \in DOMAIN reader_output)
    => \A b \in DOMAIN reader_output.ballots :
           \A i \in DOMAIN reader_output.ballots[b].choices :
               LET choice == reader_output.ballots[b].choices[i]
               IN  choice[1] = "Vote" => choice[2] < Len(reader_output.candidates)

(***************************************************************************)
(* The rows of process_files_with_race_discovery                           *)
(* (formats/us_ny_nyc/efficient_reader.rs 328-442).                        *)
(*                                                                         *)
(* A cell is a calamine Data value; a row is the cell of the column        *)
(* "Cast Vote Record" and the cells of the columns of one race.            *)
(***************************************************************************)

DataString(s) == [data |-> "String", s |-> s]

DataFloat(f) == [data |-> "Float", f |-> f]

DataInt(i) == [data |-> "Int", i |-> i]

DataEmpty == [data |-> "Empty"]

undervote == <<"u", "n", "d", "e", "r", "v", "o", "t", "e">>

overvote == <<"o", "v", "e", "r", "v", "o", "t", "e">>

write_in == <<"W", "r", "i", "t", "e", "-", "i", "n">>

\* The candidates of the candidacy file: name by external id.
CandidateNames == [x \in {1, 2} |-> IF x = 1 THEN "a" ELSE "b"]

\* The cells of the columns of the race: the three words, the id of a
\* candidate as text and as numbers, an id and a number of no candidate, a
\* text that is no number, a word in another case, and no value.
RaceCells ==
    { DataString(undervote),
      DataString(overvote),
      DataString(write_in),
      DataString(<<"1">>),
      DataString(<<"9">>),
      DataString(<<"O", "v", "e", "r", "v", "o", "t", "e">>),
      DataFloat(2),
      DataInt(1),
      DataInt(-1),
      DataEmpty }

\* The rows: a ballot id that is a string or that is not, and the cells of
\* the two columns of the race.
RaceRows ==
    { [cvr |-> cvr, cells |-> <<first, second>>] :
          cvr \in {DataString(<<"7">>), DataInt(7)},
          first \in RaceCells, second \in RaceCells }

\* `f as u32` of a float: the cast saturates.
float_as_u32(f) ==
    IF f < 0 THEN 0 ELSE IF f >= 2^WordBits THEN 2^WordBits - 1 ELSE f

\* `i as u32` of an i64: the cast keeps the low bits.
int_as_u32(i) == i % 2^WordBits

\* The external id that a cell names, if it names one: the text that parses
\* as u32, the number cast to u32.
ext_id_of(cell) ==
    IF cell.data = "String" THEN str_parse_u32(cell.s)
    ELSE IF cell.data = "Float" THEN Some(float_as_u32(cell.f))
    ELSE IF cell.data = "Int" THEN Some(int_as_u32(cell.i))
    ELSE None

\* Mutant of cell_choice: a cell that names a number counts as a vote
\* whether or not the number is the id of a candidate.
cell_choice_any_number(self, cell) ==
    IF cell.data = "String" /\ cell.s = undervote
    THEN [self |-> self, ret |-> Undervote, has_votes |-> FALSE]
    ELSE IF cell.data = "String" /\ cell.s = overvote
    THEN [self |-> self, ret |-> Overvote, has_votes |-> TRUE]
    ELSE IF cell.data = "String" /\ cell.s = write_in
    THEN LET call == add_id_to_choice(self, 0, [name |-> "Write-in", candidate_type |-> "WriteIn"])
         IN  [self |-> call.self, ret |-> call.ret, has_votes |-> TRUE]
    ELSE IF ext_id_of(cell) = None
    THEN [self |-> self, ret |-> Undervote, has_votes |-> FALSE]
    ELSE IF ext_id_of(cell)[1] \notin DOMAIN CandidateNames
    THEN [self |-> self, ret |-> Undervote, has_votes |-> TRUE]
    ELSE LET ext_id == ext_id_of(cell)[1]
             call == add_id_to_choice(self, ext_id, [name |-> CandidateNames[ext_id], candidate_type |-> "Regular"])
         IN  [self |-> call.self, ret |-> call.ret, has_votes |-> TRUE]

\* The match on a cell (efficient_reader.rs 339-421): the candidate map of
\* the race after it, the choice, and whether the cell sets has_votes.
cell_choice(self, cell) ==
    IF cell.data = "String" /\ cell.s = undervote
    THEN [self |-> self, ret |-> Undervote, has_votes |-> FALSE]
    ELSE IF cell.data = "String" /\ cell.s = overvote
    THEN [self |-> self, ret |-> Overvote, has_votes |-> TRUE]
    ELSE IF cell.data = "String" /\ cell.s = write_in
    THEN LET call == add_id_to_choice(self, 0, [name |-> "Write-in", candidate_type |-> "WriteIn"])
         IN  [self |-> call.self, ret |-> call.ret, has_votes |-> TRUE]
    ELSE IF ext_id_of(cell) = None
    THEN [self |-> self, ret |-> Undervote, has_votes |-> FALSE]
    ELSE IF ext_id_of(cell)[1] \notin DOMAIN CandidateNames
    THEN [self |-> self, ret |-> Undervote, has_votes |-> FALSE]
    ELSE LET ext_id == ext_id_of(cell)[1]
             call == add_id_to_choice(self, ext_id, [name |-> CandidateNames[ext_id], candidate_type |-> "Regular"])
         IN  [self |-> call.self, ret |-> call.ret, has_votes |-> TRUE]

RECURSIVE race_choices(_, _)
\* The loop over the columns of the race (efficient_reader.rs 338-423).
race_choices(self, cells) ==
    IF cells = <<>> THEN [self |-> self, choices |-> <<>>, has_votes |-> FALSE]
    ELSE LET first == cell_choice(self, Head(cells))
             rest == race_choices(first.self, Tail(cells))
         IN  [self      |-> rest.self,
              choices   |-> <<first.ret>> \o rest.choices,
              has_votes |-> first.has_votes \/ rest.has_votes]

\* The state before the rows of a sheet of two rows: no ballot is stored and
\* the candidate map of the race is new.
InitNycRows ==
    /\ reader_pc = "rows"
    /\ \E first \in RaceRows, second \in RaceRows : reader_input = <<first, second>>
    /\ reader_position = 1
    /\ reader_output = [race_candidate_map |-> CandidateMap_new, ballots |-> <<>>]
    /\ parse_calls = <<>>
    /\ TabulateIdle
    /\ CandidateMapFresh
    /\ ReportIdle
    /\ RebuildIdle

\* One turn of the loop over the rows (efficient_reader.rs 328-442): a row
\* whose ballot id is no string is passed over.
ProcessRow ==
    /\ reader_pc = "rows"
    /\ reader_position <= Len(reader_input)
    /\ LET row == reader_input[reader_position]
           race == race_choices(reader_output.race_candidate_map, row.cells)
           stored == row.cvr.data = "String" /\ race.has_votes
       IN  /\ reader_output' =
                  IF row.cvr.data # "String" THEN reader_output
                  ELSE [race_candidate_map |-> race.self,
                        ballots |-> IF race.has_votes
                                    THEN Append(reader_output.ballots,
                                                [ballot_id |-> row.cvr.s, choices |-> race.choices])
                                    ELSE reader_output.ballots]
           /\ parse_calls' = Append(parse_calls,
                  [row |-> row, stored |-> stored, ballots |-> reader_output'.ballots])
    /\ reader_position' = reader_position + 1
    /\ reader_pc' = IF reader_position = Len(reader_input) THEN "done" ELSE "rows"
    /\ UNCHANGED reader_input
    /\ UNCHANGED <<tabulate_vars, candidate_map_vars, report_vars, rebuild_vars>>

SpecNycRows == InitNycRows /\ [][ProcessRow]_vars

\* The cell is a choice of the race: an overvote, a write-in, or the id of a
\* candidate of the candidacy file.
IsRaceChoice(cell) ==
    \/ cell \in {DataString(overvote), DataString(write_in)}
    \/ cell \in {DataString(<<"1">>), DataFloat(2), DataInt(1)}

\* C24: the NYC batch reader stores a ballot for a row only if one of the
\* cells of the race is a choice other than an undervote (an overvote, a
\* write-in or a known candidate); the stored ballot has one choice per
\* column, and Undervote wherever the cell is an undervote, empty, an
\* unknown id or an unparseable text.
C24_StoredRowsHaveVotes ==
    \A k \in DOMAIN parse_calls :
        LET row == parse_calls[k].row
            stored == parse_calls[k].ballots
        IN  IF parse_calls[k].stored
            THEN /\ \E col \in DOMAIN row.cells : IsRaceChoice(row.cells[col])
                 /\ stored # <<>>
                 /\ Len(stored[Len(stored)].choices) = Len(row.cells)
                 /\ \A col \in DOMAIN row.cells :
                        /\ ~IsRaceChoice(row.cells[col])
                               => stored[Len(stored)].choices[col] = Undervote
                        /\ IsRaceChoice(row.cells[col])
                               => stored[Len(stored)].choices[col] # Undervote
            ELSE stored = IF k = 1 THEN <<>> ELSE parse_calls[k - 1].ballots

\* A row with the id of no candidate next to an overvote has been stored,
\* and a row of an unknown id and an unparseable text has not.
C24_Witness ==
    /\ \E k \in DOMAIN parse_calls :
           /\ parse_calls[k].stored
           /\ parse_calls[k].row.cells = <<DataString(<<"9">>), DataString(overvote)>>
           /\ parse_calls[k].ballots[Len(parse_calls[k].ballots)].choices = <<Undervote, Overvote>>
    /\ \E k \in DOMAIN parse_calls :
           /\ ~parse_calls[k].stored
           /\ parse_calls[k].row.cvr.data = "String"
           /\ parse_calls[k].row.cells = <<DataString(<<"9">>), DataString(<<"O", "v", "e", "r", "v", "o", "t", "e">>)>>

(***************************************************************************)
(* The eliminations of tabulate, read from its rounds: rounds[k] is the    *)
(* round before the k-th call of do_elimination and eliminations[k] the    *)
(* candidates that call eliminates.                                        *)
(***************************************************************************)

\* The votes of the candidate allocations of a round, in their order.
SortedVotes(round) ==
    [i \in 1..Len(CandidateAllocations(round)) |-> CandidateAllocations(round)[i].votes]

\* The candidates of a round from position `from` on.
CandidatesFrom(round, from) ==
    { CandidateAllocations(round)[i].allocatee[2] :
          i \in from..Len(CandidateAllocations(round)) }

\* The sum of the entries 1..k of a sequence of numbers, and of those after.
PrefixSum(votes, k) == SumSeq(SubSeq(votes, 1, k))

SuffixSum(votes, k) == SumSeq(SubSeq(votes, k + 1, Len(votes)))

\* The prefixes 1..k whose cumulative votes exceed the votes after them.
CumulativePrefixes(votes) ==
    { k \in 1..Len(votes) : PrefixSum(votes, k) > SuffixSum(votes, k) }

\* The prefixes 1..k of two entries or more whose last entry alone exceeds
\* the votes after them.
LastEntryPrefixes(votes) ==
    { k \in 2..Len(votes) : votes[k] > SuffixSum(votes, k) }

\* C25 as stated: do_elimination keeps the smallest prefix of the sorted
\* allocations whose cumulative votes strictly exceed the combined votes of
\* the candidates after it, and eliminates every candidate outside it.
C25_CumulativePrefix_Original ==
    \A k \in DOMAIN eliminations :
        LET votes == SortedVotes(rounds[k])
        IN  /\ CumulativePrefixes(votes) # {}
            /\ eliminations[k] = CandidatesFrom(rounds[k], Minimum(CumulativePrefixes(votes)) + 1)

\* C25, amended: do_elimination keeps the smallest prefix of two or more
\* entries of the sorted allocations whose last entry alone has strictly
\* more votes than all candidates after the prefix combined, and eliminates
\* every candidate outside it; when that leaves nobody to eliminate it
\* eliminates the last candidate alone.
C25_LastEntryPrefix ==
    \A k \in DOMAIN eliminations :
        LET votes == SortedVotes(rounds[k])
            kept == IF LastEntryPrefixes(votes) = {} THEN Len(votes)
                    ELSE Minimum(LastEntryPrefixes(votes))
        IN  eliminations[k] =
                IF kept = Len(votes) THEN CandidatesFrom(rounds[k], Len(votes))
                ELSE CandidatesFrom(rounds[k], kept + 1)

\* A call has eliminated two candidates at once behind a prefix of two
\* candidates, the second of which held more votes than the two together.
C25_Witness ==
    \E k \in DOMAIN eliminations :
        /\ Cardinality(eliminations[k]) = 2
        /\ Len(SortedVotes(rounds[k])) = 4
        /\ Minimum(LastEntryPrefixes(SortedVotes(rounds[k]))) = 2

(***************************************************************************)
(* One call of do_elimination, read from the state before and after it.    *)
(***************************************************************************)

\* The positions after the top of a ballot whose choice is an undervote, an
\* overvote or a vote for a candidate outside `gone`.
LaterChoices(ballot, gone) ==
    { j \in 2..Len(ballot) : ~(IsVote(ballot[j]) /\ ballot[j][2] \in gone) }

\* Where a ballot of an eliminated candidate belongs: the first such choice
\* with the ballot from there on, Undervote with the empty ballot when there
\* is none.
Destination(ballot, gone) ==
    IF LaterChoices(ballot, gone) = {} THEN [choice |-> Undervote, ballot |-> <<>>]
    ELSE [choice |-> ballot[Minimum(LaterChoices(ballot, gone))],
          ballot |-> SubSeq(ballot, Minimum(LaterChoices(ballot, gone)), Len(ballot))]

\* How often ballot x is in a bucket.
Occurrences(bucket, x) == Cardinality({ i \in DOMAIN bucket : bucket[i] = x })

\* The bucket of a choice, empty when the map has no such key.
BucketOf(candidate_ballots, choice) ==
    IF choice \in DOMAIN candidate_ballots THEN candidate_ballots[choice] ELSE <<>>

\* The ballots of the candidates of `batch`, as <<candidate, position>>.
BallotsOf(candidate_ballots, batch) ==
    UNION { { <<c, i>> : i \in DOMAIN candidate_ballots[Vote(c)] } : c \in batch }

\* The step is a call of do_elimination that eliminates `batch`: every
\* ballot of a candidate of the batch is afterwards in the bucket of its
\* destination and in no other, the other ballots stay where they are, and
\* the transfers count, for each candidate of the batch and each allocatee,
\* the ballots that went from the one to the other.
MovesEachBallotOnce(batch) ==
    LET before == state.candidate_ballots
        after  == state'.candidate_ballots
        gone   == state'.eliminated
        moving == BallotsOf(before, batch)
        To(m)  == Destination(before[Vote(m[1])][m[2]], gone)
    IN  /\ gone = state.eliminated \cup batch
        /\ \A c \in batch : Vote(c) \notin DOMAIN after
        /\ \A choice \in (DOMAIN before \cup DOMAIN after) \ { Vote(c) : c \in batch } :
               \A x \in { after[choice][i] : i \in DOMAIN BucketOf(after, choice) }
                        \cup { before[choice][i] : i \in DOMAIN BucketOf(before, choice) } :
                   Occurrences(BucketOf(after, choice), x) =
                       Occurrences(BucketOf(before, choice), x)
                       + Cardinality({ m \in moving : To(m) = [choice |-> choice, ballot |-> x] })
        /\ \A m \in moving : To(m).choice \in DOMAIN after
        /\ \A c \in batch : \A a \in { from_choice(To(m).choice) : m \in moving } :
               LET count == Cardinality({ m \in moving : m[1] = c /\ from_choice(To(m).choice) = a })
                   records == { i \in DOMAIN state'.transfers :
                                    state'.transfers[i].from = c /\ state'.transfers[i].to = a }
               IN  IF count = 0 THEN records = {}
                   ELSE /\ Cardinality(records) = 1
                        /\ \A i \in records : state'.transfers[i].count = count
        /\ \A i \in DOMAIN state'.transfers : state'.transfers[i].from \in batch

\* C26: when candidates are eliminated, each of their ballots is moved to
\* exactly one bucket, that of the first choice after its top that is an
\* undervote, an overvote or a vote for a candidate not eliminated (Undervote
\* when the ballot runs out), choices for eliminated candidates, those of the
\* same step included, being skipped; one transfer unit is recorded per
\* ballot for its destination.
C26_BallotsMoveOnce ==
    [][Len(eliminations') > Len(eliminations)
           => MovesEachBallotOnce(eliminations'[Len(eliminations')])]_vars

\* The example of the claim: of the ballots [A] x 4, [B, C] x 3, [C, B] x 4
\* candidate B has been eliminated, and the next round gives C 7 votes and A
\* 4 votes.
C26_Witness ==
    /\ ballots = IrvFlip
    /\ eliminations = <<{1}>>
    /\ Len(rounds) = 2
    /\ VotesOf(rounds[2], 2) = 7
    /\ VotesOf(rounds[2], 0) = 4

(***************************************************************************)
(* The transfers of a round by destination.                                *)
(***************************************************************************)

\* The sum of count over the transfers of a round into candidates.
CandidateTransferTotal(round) ==
    SumSeq([i \in 1..Len(round.transfers) |->
               IF round.transfers[i].to # Exhausted THEN round.transfers[i].count ELSE 0])

\* The sum of count over the transfers of a round into Exhausted.
ExhaustedTransferTotal(round) ==
    SumSeq([i \in 1..Len(round.transfers) |->
               IF round.transfers[i].to = Exhausted THEN round.transfers[i].count ELSE 0])

\* C27 as stated: for every round after round 0 the counts of its transfers
\* into candidates sum to the votes the round before gave to the candidates
\* eliminated in between.
C27_CandidateTransfers_Original ==
    \A k \in 2..Len(rounds) :
        CandidateTransferTotal(rounds[k]) = VotesOfSet(rounds[k - 1], eliminations[k - 1])

\* C27, amended: for every round after round 0 the counts of its transfers
\* into candidates sum to the votes the round before gave to the candidates
\* eliminated in between, less the counts of its transfers into Exhausted:
\* the two sums are equal only when no ballot of an eliminated candidate was
\* exhausted.
C27_CandidateTransfers ==
    \A k \in 2..Len(rounds) :
        /\ CandidateTransferTotal(rounds[k]) =
               VotesOfSet(rounds[k - 1], eliminations[k - 1]) - ExhaustedTransferTotal(rounds[k])
        /\ ExhaustedTransferTotal(rounds[k]) >= 0
        /\ CandidateTransferTotal(rounds[k]) <= VotesOfSet(rounds[k - 1], eliminations[k - 1])

\* A round in which two or more ballots of the eliminated candidates went to
\* candidates and one or more was exhausted.
C27_Witness ==
    \E k \in 2..Len(rounds) :
        /\ CandidateTransferTotal(rounds[k]) >= 2
        /\ ExhaustedTransferTotal(rounds[k]) >= 1

(***************************************************************************)
(* The order of the allocations and of the transfers of a round.           *)
(***************************************************************************)

\* C28: in every round returned by tabulate the allocations are the
\* candidate allocations in non-increasing order of votes followed by
\* exactly one Exhausted allocation, the last element, which is there even
\* when it has no votes.
C28_AllocationOrder ==
    \A k \in DOMAIN rounds :
        LET a == rounds[k].allocations
        IN  /\ Len(a) >= 1
            /\ a[Len(a)].allocatee = Exhausted
            /\ \A i \in 1..(Len(a) - 1) : IsCandidateAllocation(a[i])
            /\ \A i \in 1..(Len(a) - 2) : a[i].votes >= a[i + 1].votes

\* A round of three candidates or more in which a candidate of a higher id
\* precedes one of a lower id that has fewer votes, and whose Exhausted
\* allocation has no votes.
C28_Witness ==
    \E k \in DOMAIN rounds :
        LET a == rounds[k].allocations
        IN  /\ Len(a) >= 4
            /\ a[Len(a)] = [allocatee |-> Exhausted, votes |-> 0]
            /\ \E i \in 1..(Len(a) - 2) :
                   /\ a[i].allocatee[2] > a[i + 1].allocatee[2]
                   /\ a[i].votes > a[i + 1].votes

\* C29: in the transfer list of every round the transfers into candidates
\* are in non-increasing order of the votes the destination has in that
\* round (after the elimination), and every transfer into Exhausted comes
\* after all transfers into candidates; round 0 has no transfers and every
\* later round has at least one.
C29_TransferOrder ==
    \A k \in DOMAIN rounds :
        LET t == rounds[k].transfers
        IN  /\ k = 1 => t = <<>>
            /\ k > 1 => t # <<>>
            /\ \A i \in DOMAIN t : \A j \in DOMAIN t :
                   i < j =>
                       IF t[i].to = Exhausted THEN t[j].to = Exhausted
                       ELSE t[j].to # Exhausted
                                => VotesOf(rounds[k], t[i].to[2]) >= VotesOf(rounds[k], t[j].to[2])

\* A round whose transfers go to two candidates, the one of the higher id
\* first because it has more votes, and then to Exhausted.
C29_Witness ==
    \E k \in DOMAIN rounds :
        LET t == rounds[k].transfers
        IN  /\ Len(t) >= 3
            /\ t[1].to # Exhausted
            /\ t[2].to # Exhausted
            /\ t[1].to[2] > t[2].to[2]
            /\ VotesOf(rounds[k], t[1].to[2]) > VotesOf(rounds[k], t[2].to[2])
            /\ t[Len(t)].to = Exhausted

(***************************************************************************)
(* The records of mpls_ballot_reader (formats/us_mn_mpls/mod.rs 22-118).   *)
(*                                                                         *)
(* A record is the sequence of its fields, a field the sequence of its     *)
(* characters.  The csv reader is built with its defaults: fields are not  *)
(* trimmed, and a record whose number of fields differs from that of the   *)
(* header is an error.                                                     *)
(***************************************************************************)

UpperCase == <<"A", "B", "C", "D", "E", "F", "G", "H", "I", "J", "K", "L", "M", "N", "O", "P", "Q", "R", "S", "T", "U", "V", "W", "X", "Y", "Z">>

LowerCase == <<"a", "b", "c", "d", "e", "f", "g", "h", "i", "j", "k", "l", "m", "n", "o", "p", "q", "r", "s", "t", "u", "v", "w", "x", "y", "z">>

\* u8::to_ascii_lowercase.
to_ascii_lowercase(char) ==
    IF \E i \in DOMAIN UpperCase : UpperCase[i] = char
    THEN LowerCase[CHOOSE i \in DOMAIN UpperCase : UpperCase[i] = char]
    ELSE char

\* str::eq_ignore_ascii_case.
eq_ignore_ascii_case(str, other) ==
    /\ Len(str) = Len(other)
    /\ \A i \in DOMAIN str : to_ascii_lowercase(str[i]) = to_ascii_lowercase(other[i])

RECURSIVE trim(_)
\* str::trim: without the white space at both ends.
trim(str) ==
    IF str = <<>> THEN str
    ELSE IF str[1] = " " THEN trim(Tail(str))
    ELSE IF str[Len(str)] = " " THEN trim(SubSeq(str, 1, Len(str) - 1))
    ELSE str

uwi == <<"u", "w", "i">>

UndeclaredWriteIns == <<"U", "n", "d", "e", "c", "l", "a", "r", "e", "d", " ", "W", "r", "i", "t", "e", "-", "i", "n", "s">>

\* parse_choice (mod.rs 22-44): the candidate map after the call and the
\* Choice returned.
parse_choice(candidate, candidate_map) ==
    IF eq_ignore_ascii_case(trim(candidate), undervote)
    THEN [self |-> candidate_map, ret |-> Undervote]
    ELSE IF eq_ignore_ascii_case(trim(candidate), overvote)
    THEN [self |-> candidate_map, ret |-> Overvote]
    ELSE IF trim(candidate) = <<>>
    THEN [self |-> candidate_map, ret |-> Undervote]
    ELSE add_id_to_choice(candidate_map, trim(candidate),
             IF eq_ignore_ascii_case(trim(candidate), uwi)
             THEN [name |-> UndeclaredWriteIns, candidate_type |-> "WriteIn"]
             ELSE [name |-> trim(candidate), candidate_type |-> "Regular"])

\* One rank of a record that holds no overvote (mod.rs 85-89, 92-96, 99-103).
rank_choice(choice, candidate_map) ==
    IF choice # <<>> /\ ~eq_ignore_ascii_case(choice, undervote)
    THEN parse_choice(choice, candidate_map)
    ELSE [self |-> candidate_map, ret |-> Undervote]

\* Mutant of record_choices: an overvote does not collapse the ballot, every
\* rank is parsed.
record_choices_no_collapse(choice1, choice2, choice3, candidate_map) ==
    LET first  == rank_choice(choice1, candidate_map)
        second == rank_choice(choice2, first.self)
        third  == rank_choice(choice3, second.self)
    IN  [self |-> third.self, choices |-> <<first.ret, second.ret, third.ret>>]

\* The choices of a record (mod.rs 75-104): Overvote alone when a rank is
\* the word overvote, one choice per rank otherwise.
record_choices(choice1, choice2, choice3, candidate_map) ==
    IF \/ eq_ignore_ascii_case(choice1, overvote)
       \/ eq_ignore_ascii_case(choice2, overvote)
       \/ eq_ignore_ascii_case(choice3, overvote)
    THEN [self |-> candidate_map, choices |-> <<Overvote>>]
    ELSE LET first  == rank_choice(choice1, candidate_map)
             second == rank_choice(choice2, first.self)
             third  == rank_choice(choice3, second.self)
         IN  [self |-> third.self, choices |-> <<first.ret, second.ret, third.ret>>]

\* count_str.parse().unwrap_or(1) (mod.rs 72).
record_count(count_str) ==
    IF str_parse_u32(count_str) = None THEN 1 ELSE str_parse_u32(count_str)[1]

\* The rank fields of the records: the word overvote in two cases and with
\* a blank before it, the word undervote, the empty field, a candidate with
\* and without a blank, and the undeclared write-ins.
RankFields ==
    { overvote,
      <<"O", "v", "e", "r", "V", "O", "T", "E">>,
      <<" ">> \o overvote,
      undervote,
      <<>>,
      <<"a">>,
      <<"a", " ">>,
      <<"U", "W", "I">> }

\* The count fields: numbers, no number, and nothing.
CountFields == { <<"2">>, <<"1">>, <<"0">>, <<"x">>, <<>> }

\* The records of five fields, and two of four.
MplsRecords ==
    { <<<<"P">>, choice1, choice2, choice3, count_str>> :
          choice1 \in RankFields, choice2 \in RankFields, choice3 \in RankFields,
          count_str \in CountFields }
    \cup { <<<<"P">>, overvote, <<"a">>, <<>>>>, <<<<"P">>, <<"a">>, <<>>, <<"2">>>> }

\* The files: the number of fields of the header, and one record, or one of
\* three records followed by any record.
MplsFiles ==
    { [header |-> n, records |-> <<record>>] : n \in {4, 5}, record \in MplsRecords }
    \cup { [header |-> 5, records |-> <<first, second>>] :
               first \in { <<<<"P">>, <<"a">>, <<"b">>, <<>>, <<"2">>>>,
                           <<<<"P">>, overvote, <<"b">>, <<>>, <<"1">>>>,
                           <<<<"P">>, <<"U", "W", "I">>, <<>>, <<>>, <<"0">>>> },
               second \in MplsRecords }

\* The state after the file is opened (mod.rs 50-57).
InitMplsReader ==
    /\ reader_pc = "records"
    /\ reader_input \in MplsFiles
    /\ reader_position = 1
    /\ reader_output = [candidate_map |-> CandidateMap_new, ballots |-> <<>>, ballot_id |-> 0]
    /\ parse_calls = <<>>
    /\ TabulateIdle
    /\ CandidateMapFresh
    /\ ReportIdle
    /\ RebuildIdle

\* One turn of the loop over the records (mod.rs 59-115): a record of another
\* length than the header is an error of the csv reader and panics, a record
\* of fewer than five fields is passed over, any other is expanded to
\* `count` ballots.
ReadRecord ==
    /\ reader_pc = "records"
    /\ reader_position <= Len(reader_input.records)
    /\ LET record == reader_input.records[reader_position]
           parsed == record_choices(record[2], record[3], record[4], reader_output.candidate_map)
           count  == record_count(record[5])
           added  == [i \in 1..count |->
                         [id      |-> <<record[1], reader_output.ballot_id + i>>,
                          choices |-> parsed.choices]]
       IN  IF Len(record) # reader_input.header
           THEN /\ reader_pc' = "panicked"
                /\ UNCHANGED <<reader_output, parse_calls>>
           ELSE IF Len(record) < 5
           THEN /\ reader_pc' = "records"
                /\ parse_calls' = Append(parse_calls, [record |-> record, added |-> <<>>])
                /\ UNCHANGED reader_output
           ELSE /\ reader_pc' = "records"
                /\ parse_calls' = Append(parse_calls, [record |-> record, added |-> added])
                /\ reader_output' = [candidate_map |-> parsed.self,
                                     ballots       |-> reader_output.ballots \o added,
                                     ballot_id     |-> reader_output.ballot_id + count]
    /\ reader_position' = reader_position + 1
    /\ UNCHANGED reader_input
    /\ UNCHANGED <<tabulate_vars, candidate_map_vars, report_vars, rebuild_vars>>

\* The end of the records: Election::new(candidate_map.into_vec(), ballots)
\* (mod.rs 117).
ReturnMplsElection ==
    /\ reader_pc = "records"
    /\ reader_position > Len(reader_input.records)
    /\ reader_pc' = "done"
    /\ reader_output' = Election(reader_output.candidate_map.candidates, reader_output.ballots)
    /\ UNCHANGED <<reader_input, reader_position, parse_calls>>
    /\ UNCHANGED <<tabulate_vars, candidate_map_vars, report_vars, rebuild_vars>>

NextMplsReader == ReadRecord \/ ReturnMplsElection

SpecMplsReader == InitMplsReader /\ [][NextMplsReader]_vars

\* A rank field of the record is the word overvote in any case.
HasOvervoteRank(record) ==
    \E i \in 2..4 : [j \in DOMAIN record[i] |-> to_ascii_lowercase(record[i][j])] = overvote

\* C30: in the Minneapolis reader a record of which a rank field is the
\* word overvote, in any case, yields ballots whose choices are exactly
\* [Overvote]; every other record yields ballots of exactly three choices;
\* a record with the count n yields n ballots of identical choices.
C30_MplsRecords ==
    \A k \in DOMAIN parse_calls :
        LET record == parse_calls[k].record
            added  == parse_calls[k].added
        IN  Len(record) >= 5 =>
                /\ str_parse_u32(record[5]) # None => Len(added) = str_parse_u32(record[5])[1]
                /\ \A i \in DOMAIN added : added[i].choices = added[1].choices
                /\ \A i \in DOMAIN added :
                       IF HasOvervoteRank(record) THEN added[i].choices = <<Overvote>>
                       ELSE Len(added[i].choices) = 3

\* A record with an overvote in its second rank and the count 2 has yielded
\* two ballots [Overvote], after a record of three ranks that yielded two
\* ballots of three choices.
C30_Witness ==
    /\ Len(parse_calls) = 2
    /\ Len(parse_calls[1].added) = 2
    /\ Len(parse_calls[1].added[1].choices) = 3
    /\ parse_calls[2].record[3] = <<"O", "v", "e", "r", "V", "O", "T", "E">>
    /\ Len(parse_calls[2].added) = 2
    /\ parse_calls[2].added[2].choices = <<Overvote>>

(***************************************************************************)
(* The end of a run of report.                                             *)
(***************************************************************************)

\* C31: in a run of report that processes at least one jurisdiction,
\* index.json is written exactly once, by report itself, and only after
\* every jurisdiction worker has finished writing its contest artifacts: the
\* index is not written while a worker is still at work, and a run that has
\* ended has written it.
C31_IndexWrittenOnceAtEnd ==
    report_pc # "idle" =>
        /\ index_path \in DOMAIN written =>
               /\ report_pc = "done"
               /\ written[index_path] = {"index"}
               /\ \A j \in DOMAIN worker_pc : worker_pc[j] = "returned"
        /\ (ReportEnded /\ filtered_jurisdictions # <<>>) =>
               index_path \in DOMAIN written

(***************************************************************************)
(* Further properties of the rounds returned by tabulate.                  *)
(***************************************************************************)

\* C32: in every round, with or without nyc_style, the candidate votes plus
\* the undervote field plus the overvote field equal the number of input
\* ballots, and continuing_ballots equals the sum of the candidate votes.
C32_BallotsPartitioned ==
    \A k \in DOMAIN rounds :
        /\ CandidateVotes(rounds[k]) + rounds[k].undervote + rounds[k].overvote = Len(ballots)
        /\ rounds[k].continuing_ballots = CandidateVotes(rounds[k])

\* A call with nyc_style whose round 0 has ballots without a vote on top,
\* and a later round into which a ballot was exhausted.
C32_Witness ==
    /\ NycStyle
    /\ Len(rounds) >= 2
    /\ rounds[1].undervote + rounds[1].overvote > 0
    /\ ExhaustedVotes(rounds[1]) = 0
    /\ rounds[2].undervote > rounds[1].undervote

\* Every call of do_elimination leaves the first two candidates of the
\* sorted allocations of its round un-eliminated.
TopTwoSurvive ==
    \A j \in DOMAIN eliminations :
        /\ NumCandidates(rounds[j]) >= 3
        /\ \A i \in 1..2 : CandidateAllocations(rounds[j])[i].allocatee[2] \notin eliminations[j]

\* C33 as stated: every elimination step leaves the top two candidates
\* un-eliminated, and whenever round 0 has three or more candidates with
\* votes the final round returned has exactly two candidate allocations.
C33_EndsWithTwo_Original ==
    /\ TopTwoSurvive
    /\ (pc = "done" /\ NumCandidates(rounds[1]) >= 3)
           => NumCandidates(rounds[Len(rounds)]) = 2

\* C33, amended: every elimination step leaves the top two candidates
\* un-eliminated, so every round has two candidate allocations or more once
\* round 0 has three; the final round returned has exactly two unless the
\* round limit ended the tabulation, and then it has three or more.
C33_EndsWithTwo ==
    /\ TopTwoSurvive
    /\ (rounds # <<>> /\ NumCandidates(rounds[1]) >= 3) =>
           /\ \A k \in DOMAIN rounds : NumCandidates(rounds[k]) >= 2
           /\ (pc = "done" /\ ~limit_logged) => NumCandidates(rounds[Len(rounds)]) = 2
           /\ (pc = "done" /\ limit_logged) => NumCandidates(rounds[Len(rounds)]) >= 3

\* A tabulation of four candidates whose elimination took two of them at
\* once and that ended with two candidate allocations.
C33_Witness ==
    /\ pc = "done"
    /\ ~limit_logged
    /\ NumCandidates(rounds[1]) = 4
    /\ Cardinality(eliminations[1]) = 2
    /\ NumCandidates(rounds[Len(rounds)]) = 2

\* The call of do_elimination after rounds[j] took the fallback: its scan
\* left no candidate to eliminate.
FallbackTaken(j) == to_eliminate(AllocOf(rounds[j])) = {}

\* C34: in an elimination step that eliminates more than one candidate the
\* votes of all eliminated candidates together are strictly less than the
\* votes of every candidate of the round that survives; the fallback is
\* taken only when the two lowest candidates are tied, and it eliminates the
\* one of them that is listed last.
C34_BatchIsSafe ==
    \A j \in DOMAIN eliminations :
        LET cands == CandidateAllocations(rounds[j])
            n     == Len(cands)
        IN  /\ Cardinality(eliminations[j]) > 1 =>
                   \A i \in 1..n :
                       cands[i].allocatee[2] \notin eliminations[j]
                           => VotesOfSet(rounds[j], eliminations[j]) < cands[i].votes
            /\ FallbackTaken(j) =>
                   /\ n >= 2
                   /\ cands[n - 1].votes = cands[n].votes
                   /\ eliminations[j] = {cands[n].allocatee[2]}

\* A step has eliminated two candidates whose votes together are one less
\* than those of the weakest survivor, and a step has taken the fallback
\* although the candidates were not all tied.
C34_Witness ==
    /\ \E j \in DOMAIN eliminations :
           /\ Cardinality(eliminations[j]) = 2
           /\ \E i \in 1..NumCandidates(rounds[j]) :
                  /\ CandidateAllocations(rounds[j])[i].allocatee[2] \notin eliminations[j]
                  /\ CandidateAllocations(rounds[j])[i].votes = VotesOfSet(rounds[j], eliminations[j]) + 1
    /\ \E j \in DOMAIN eliminations : FallbackTaken(j) /\ ~AllTied(rounds[j])

(***************************************************************************)
(* Termination of tabulate.                                                *)
(***************************************************************************)

\* The number of distinct candidates on the input ballots.
NumBallotCandidates == Cardinality(BallotCandidates)

\* Every call of do_elimination eliminates a candidate that no earlier call
\* eliminated; a tabulation that the round limit has not cut off has
\* returned at most max(1, k - 1) rounds for k candidates on the ballots;
\* and the round limit cuts off only a tabulation of at least
\* max_rounds + 3 candidates.
RoundsBounded ==
    /\ \A j \in DOMAIN eliminations :
           /\ eliminations[j] # {}
           /\ eliminations[j] \cap EliminatedBefore(j) = {}
    /\ ~limit_logged =>
           Len(rounds) <= IF NumBallotCandidates <= 2 THEN 1 ELSE NumBallotCandidates - 1
    /\ limit_logged => NumBallotCandidates >= max_rounds + 3

\* An iteration of the loop either ends the loop or adds one to
\* round_number, which never exceeds the limit: the loop ends after at most
\* max_rounds + 1 iterations.
LoopAdvances ==
    /\ pc = "loop"
    /\ round_number <= max_rounds
    /\ Len(rounds') = Len(rounds) + 1
    /\ \/ pc' = "done" /\ round_number' = round_number
       \/ pc' = "loop" /\ round_number' = round_number + 1 /\ round_number' <= max_rounds

\* C35: tabulate terminates, and without reaching the round limit when the
\* ballots name fewer candidates than the limit has rounds: each elimination
\* step strictly enlarges the eliminated set, and the number of rounds
\* returned is at most max(1, k - 1) for k distinct candidates on the
\* ballots.
C35_Terminates == [][RoundsBounded /\ RoundsBounded' /\ LoopAdvances]_vars

\* A tabulation of four candidates has ended with three rounds, each
\* elimination having taken one candidate.
C35_Witness ==
    /\ pc = "done"
    /\ ~limit_logged
    /\ NumBallotCandidates = 4
    /\ Len(rounds) = 3
    /\ \A j \in DOMAIN eliminations : Cardinality(eliminations[j]) = 1


\* ---------------------------------------------------------------------------
\* The New York City reader of one contest over several files
\* (formats/us_ny_nyc/mod.rs 130-306).
\* ---------------------------------------------------------------------------

\* The cells of the rank columns of a file: the three words, the ids of the
\* two candidates as text, an id of no candidate, and a number.
CvrCells ==
    { DataString(undervote),
      DataString(overvote),
      DataString(write_in),
      DataString(<<"1">>),
      DataString(<<"2">>),
      DataString(<<"9">>),
      DataFloat(2) }

\* A row of file f: its ballot id names the file and the row, its cells are
\* in the order of the columns of the header.
CvrRow(f, r, first, second) ==
    [cvr |-> DataString(<<f, r>>), cells |-> <<first, second>>]

\* The orders in which a header lists the columns of the two ranks: the rank
\* of each column.
HeaderRanks == { <<1, 2>>, <<2, 1>> }

\* The files of a bundle: one file of two rows, or two files of one row. A
\* file has a Precinct column of text or has none.
CvrBundles ==
    { << [precinct |-> p, ranks |-> h,
          rows |-> <<CvrRow("A", "1", a, b), CvrRow("A", "2", c, d)>>] >> :
          p \in BOOLEAN, h \in HeaderRanks,
          a \in CvrCells, b \in CvrCells, c \in CvrCells, d \in CvrCells }
    \cup
    { << [precinct |-> p, ranks |-> <<1, 2>>, rows |-> <<CvrRow("A", "1", a, b)>>],
         [precinct |-> q, ranks |-> <<1, 2>>, rows |-> <<CvrRow("B", "1", c, d)>>] >> :
          p \in BOOLEAN, q \in BOOLEAN,
          a \in CvrCells, b \in CvrCells, c \in CvrCells, d \in CvrCells }

\* rank_to_col.values() (mod.rs 211): the cells of a row in the order of the
\* ranks, whatever the order of the columns.
cells_by_rank(file, row) ==
    [ k \in 1..Len(file.ranks) |->
        row.cells[CHOOSE col \in DOMAIN file.ranks : file.ranks[col] = k] ]

\* The choice of one cell (mod.rs 212-237): only text is read; a text that
\* names no candidate is an undervote.
vote_of_cell(self, cell) ==
    IF cell.data # "String" THEN [self |-> self, ret |-> Undervote]
    ELSE IF cell.s = undervote THEN [self |-> self, ret |-> Undervote]
    ELSE IF cell.s = overvote THEN [self |-> self, ret |-> Overvote]
    ELSE IF cell.s = write_in
    THEN LET call == add_id_to_choice(self, 0, [name |-> "Write-in", candidate_type |-> "WriteIn"])
         IN  [self |-> call.self, ret |-> call.ret]
    ELSE IF str_parse_u32(cell.s) = None THEN [self |-> self, ret |-> Undervote]
    ELSE IF str_parse_u32(cell.s)[1] \notin DOMAIN CandidateNames
    THEN [self |-> self, ret |-> Undervote]
    ELSE LET ext_id == str_parse_u32(cell.s)[1]
             call == add_id_to_choice(self, ext_id, [name |-> CandidateNames[ext_id], candidate_type |-> "Regular"])
         IN  [self |-> call.self, ret |-> call.ret]

RECURSIVE votes_of_cells(_, _)
\* The loop over the rank columns of a row (mod.rs 210-238).
votes_of_cells(self, cells) ==
    IF cells = <<>> THEN [self |-> self, choices |-> <<>>]
    ELSE LET first == vote_of_cell(self, Head(cells))
             rest == votes_of_cells(first.self, Tail(cells))
         IN  [self |-> rest.self, choices |-> <<first.ret>> \o rest.choices]

\* has_votes of a row of a file with a Precinct column (mod.rs 187-199): some
\* rank cell is a text other than undervote, overvote and the empty text.
row_has_votes(cells) ==
    \E k \in DOMAIN cells :
        /\ cells[k].data = "String"
        /\ cells[k].s \notin {undervote, overvote, <<>>}

RECURSIVE scan_rows(_, _, _)
\* The loop over the rows of one file (mod.rs 176-243) from the map and the
\* ballots so far: a row whose ballot id is no text is passed over, and so is
\* a row without votes when the file has a Precinct column.
scan_rows(file, rows_left, acc) ==
    IF rows_left = <<>> THEN acc
    ELSE LET row == Head(rows_left)
             cells == cells_by_rank(file, row)
             skipped == \/ row.cvr.data # "String"
                        \/ file.precinct /\ ~row_has_votes(cells)
             votes == votes_of_cells(acc.file_candidate_ids, cells)
         IN  scan_rows(file, Tail(rows_left),
                 IF skipped THEN acc
                 ELSE [file_candidate_ids |-> votes.self,
                       file_ballots |-> Append(acc.file_ballots,
                           [ballot_id |-> row.cvr.s, choices |-> votes.choices]),
                       cells |-> Append(acc.cells, cells)])

\* The state before the files of the contest are read: no ballot is kept and
\* the candidate map of the contest is new.
InitNycReader ==
    /\ reader_pc = "files"
    /\ reader_input \in CvrBundles
    /\ reader_position = 1
    /\ reader_output = [candidate_ids |-> CandidateMap_new, ballots |-> <<>>]
    /\ parse_calls = <<>>
    /\ TabulateIdle
    /\ CandidateMapFresh
    /\ ReportIdle
    /\ RebuildIdle

\* One file of the parallel scan and its turn of the combining loop
\* (mod.rs 160-257): the file's rows are read with a new map of its own, its
\* ballots are appended as they are, and its map is merged into the map of
\* the contest in the order in which its HashMap yields its entries.
ScanAndCombineFile ==
    /\ reader_pc = "files"
    /\ reader_position <= Len(reader_input)
    /\ LET file == reader_input[reader_position]
           scanned == scan_rows(file, file.rows,
                          [file_candidate_ids |-> CandidateMap_new,
                           file_ballots |-> <<>>, cells |-> <<>>])
       IN  /\ \E order \in Orders(DOMAIN scanned.file_candidate_ids.id_to_index) :
                  reader_output' =
                      [candidate_ids |-> merge(reader_output.candidate_ids,
                                               scanned.file_candidate_ids, order),
                       ballots |-> reader_output.ballots \o scanned.file_ballots]
           /\ parse_calls' = parse_calls \o scanned.cells
    /\ reader_position' = reader_position + 1
    /\ reader_pc' = IF reader_position = Len(reader_input) THEN "combined" ELSE "files"
    /\ UNCHANGED reader_input
    /\ UNCHANGED <<tabulate_vars, candidate_map_vars, report_vars, rebuild_vars>>

\* nyc_ballot_reader's return (mod.rs 303-305).
ReturnNycElection ==
    /\ reader_pc = "combined"
    /\ reader_output' = Election(reader_output.candidate_ids.candidates, reader_output.ballots)
    /\ reader_pc' = "done"
    /\ UNCHANGED <<reader_input, reader_position, parse_calls>>
    /\ UNCHANGED <<tabulate_vars, candidate_map_vars, report_vars, rebuild_vars>>

NextNycReader == ScanAndCombineFile \/ ReturnNycElection

SpecNycReader == InitNycReader /\ [][NextNycReader]_vars

\* The name that the candidates workbook gives for the id in a cell that
\* became a Vote: "Write-in" for the write-in word.
NameOfCell(cell) ==
    IF cell.s = write_in THEN "Write-in" ELSE CandidateNames[str_parse_u32(cell.s)[1]]

\* C36: in the election that nyc_ballot_reader returns, every Vote(c) of a
\* ballot denotes, in the returned candidate list, the candidate whose name
\* the candidates workbook gives for the external id in the cell of that
\* rank, whatever the order of the files and of the iteration of the maps.
C36_VotesNameTheirCells ==
    reader_pc = "done" =>
        \A b \in DOMAIN reader_output.ballots :
            \A k \in DOMAIN reader_output.ballots[b].choices :
                LET choice == reader_output.ballots[b].choices[k]
                IN  choice[1] = "Vote" =>
                        /\ choice[2] < Len(reader_output.candidates)
                        /\ reader_output.candidates[choice[2] + 1].name
                               = NameOfCell(parse_calls[b][k])

\* ---------------------------------------------------------------------------
\* The batch reader and the reader of one contest on the same files
\* (formats/us_ny_nyc/mod.rs 310-366, efficient_reader.rs 119-135, 266-462).
\* ---------------------------------------------------------------------------

RECURSIVE batch_rows(_, _)
\* The loop over the rows of one file for the race (efficient_reader.rs
\* 328-442): the cells are read in the order of the columns of the header,
\* and a ballot is stored only when it has votes.
batch_rows(rows_left, acc) ==
    IF rows_left = <<>> THEN acc
    ELSE LET row == Head(rows_left)
             race == race_choices(acc.race_candidate_map, row.cells)
         IN  batch_rows(Tail(rows_left),
                 IF row.cvr.data # "String" THEN acc
                 ELSE [race_candidate_map |-> race.self,
                       ballots |-> IF race.has_votes
                                   THEN Append(acc.ballots,
                                            [ballot_id |-> row.cvr.s, choices |-> race.choices])
                                   ELSE acc.ballots])

RECURSIVE process_files_with_race_discovery(_, _)
\* The loop over the files (efficient_reader.rs 275-461): one candidate map
\* of the race serves every file.
process_files_with_race_discovery(file_paths, acc) ==
    IF file_paths = <<>> THEN acc
    ELSE process_files_with_race_discovery(Tail(file_paths),
             batch_rows(Head(file_paths).rows, acc))

\* The election of the contest in nyc_batch_reader (mod.rs 350-362):
\* to_election (efficient_reader.rs 119-135) gives none when the race has no
\* stored ballot, and the contest then gets the empty election.
nyc_batch_election(file_paths) ==
    LET data == process_files_with_race_discovery(file_paths,
                    [race_candidate_map |-> CandidateMap_new, ballots |-> <<>>])
    IN  IF data.ballots = <<>> THEN Election(<<>>, <<>>)
        ELSE Election(data.race_candidate_map.candidates, data.ballots)

\* nyc_batch_reader on the files that nyc_ballot_reader has read: both
\* elections are kept.
BatchReadContest ==
    /\ reader_pc = "done"
    /\ reader_output' = [single |-> reader_output, batch |-> nyc_batch_election(reader_input)]
    /\ reader_pc' = "both"
    /\ UNCHANGED <<reader_input, reader_position, parse_calls>>
    /\ UNCHANGED <<tabulate_vars, candidate_map_vars, report_vars, rebuild_vars>>

NextNycReaders == ScanAndCombineFile \/ ReturnNycElection \/ BatchReadContest

SpecNycReaders == InitNycReader /\ [][NextNycReaders]_vars

\* A choice with its candidate identified by name.
NamedChoice(election, choice) ==
    IF choice[1] = "Vote" THEN <<"Vote", election.candidates[choice[2] + 1].name>> ELSE choice

\* The stored ballots of an election: the ballot id and the named choice at
\* each rank position.
NamedBallots(election) ==
    { <<election.ballots[b].ballot_id,
        [k \in DOMAIN election.ballots[b].choices |->
            NamedChoice(election, election.ballots[b].choices[k])]>> :
      b \in DOMAIN election.ballots }

\* C37: on the same bundle and contest, the election of nyc_batch_reader and
\* the election of nyc_ballot_reader hold the same stored ballots, each with
\* the same choice at each rank position, candidates identified by name.
C37_BatchEqualsSingle ==
    reader_pc = "both" => NamedBallots(reader_output.batch) = NamedBallots(reader_output.single)

\* ---------------------------------------------------------------------------
\* The artifacts of a contest within one run of report.
\* ---------------------------------------------------------------------------

\* C38: for every combination of the cache flags and of the files of an
\* earlier run, on the sequential and on the batch path, a contest whose
\* normalized.json.gz is rewritten during the run has its report.json
\* regenerated from it and rewritten in the same run.
C38_RewrittenArtifactRegeneratesReport ==
    \A c \in Processed :
        PathOfPreprocessed(meta, c) \in WrittenFor(c)
        => /\ PathOfReport(meta, c) \in WrittenFor(c)
           /\ "generate_report" \in OpsOf(c)
           /\ files[PathOfReport(meta, c)] = generate_report(files[PathOfPreprocessed(meta, c)])

\* The entries of office `office` among the contests of an index entry.
EntriesOfOffice(entry, office) ==
    { n \in DOMAIN entry.contests : entry.contests[n].office = office }

\* C39: every contest that the metadata lists for an election contributes
\* exactly one ContestIndexEntry to the index entry of that election, on the
\* sequential and on the batch path: the entry has as many contests as the
\* election, and each listed contest has its entry.
C39_EveryContestIndexed ==
    \A j \in DOMAIN election_results :
        \A k \in DOMAIN election_results[j] :
            LET election == meta[j].elections[k]
                entry == election_results[j][k]
            IN  /\ Len(entry.contests) = Len(election.contests)
                /\ \A n \in DOMAIN election.contests :
                       EntriesOfOffice(entry, election.contests[n].office) # {}

\* ---------------------------------------------------------------------------
\* The candidate map over a history of add_id_to_choice and merge calls.
\* ---------------------------------------------------------------------------

\* The history holds calls of add_id_to_choice and of merge only.
NoAddCalls == \A i \in 1..Len(cm_calls) : cm_calls[i].op # "add"

\* The calls up to call i are all calls of add_id_to_choice.
OnlyAddIdToChoiceUpTo(i) == \A n \in 1..i : cm_calls[n].op = "add_id_to_choice"

\* No two candidates of the vector have the same name.
NamesDistinct(cands) ==
    \A m \in DOMAIN cands, n \in DOMAIN cands : cands[m].name = cands[n].name => m = n

\* C40: over any sequence of add_id_to_choice and merge calls on a new map,
\* an external id that has an internal id keeps it, the candidate at an
\* index that exists never changes, and every mapped id is an index of the
\* candidate vector; as long as the calls are add_id_to_choice calls only, no
\* two candidates have the same name.
C40_IndicesStable ==
    NoAddCalls =>
        \A i \in 1..Len(cm_calls) :
            LET call == cm_calls[i]
            IN  /\ \A x \in DOMAIN call.before.id_to_index :
                       /\ x \in DOMAIN call.after.id_to_index
                       /\ call.after.id_to_index[x] = call.before.id_to_index[x]
                /\ Len(call.after.candidates) >= Len(call.before.candidates)
                /\ \A n \in DOMAIN call.before.candidates :
                       call.after.candidates[n] = call.before.candidates[n]
                /\ \A x \in DOMAIN call.after.id_to_index :
                       call.after.id_to_index[x] \in 0..(Len(call.after.candidates) - 1)
                /\ OnlyAddIdToChoiceUpTo(i) => NamesDistinct(call.after.candidates)

\* A history without add in which add_id_to_choice appended a candidate and
\* then mapped a second id to it by its name, and a merge then met a key the
\* map held and a key it did not hold.
C40_Witness ==
    /\ NoAddCalls
    /\ Len(cm_calls) = 3
    /\ OnlyAddIdToChoiceUpTo(2)
    /\ Len(cm_calls[1].after.candidates) = 1
    /\ Len(cm_calls[2].after.candidates) = 1
    /\ Cardinality(DOMAIN cm_calls[2].after.id_to_index) = 2
    /\ cm_calls[3].op = "merge"
    /\ DOMAIN cm_calls[3].other.id_to_index \cap DOMAIN cm_calls[3].before.id_to_index # {}
    /\ DOMAIN cm_calls[3].other.id_to_index \ DOMAIN cm_calls[3].before.id_to_index # {}

====
